---- MODULE Spec2Model ----
(***************************************************************************)
(* Verification model of the MevzuatAI retrieval core:                     *)
(*   - RAGSystem (rag_system/rag_integration.py): snapshot loading and     *)
(*     search_laws,                                                        *)
(*   - LegalDocumentEmbedder (rag_system/create_embeddings.py): chunk_text,*)
(*     process_dataset and the snapshot files it writes,                   *)
(*   - LegalRAGDatabase.load_data (rag_system/build_vector_database.py).   *)
(***************************************************************************)
EXTENDS Integers, Sequences, FiniteSets, TLC

\* ------------------------------------------------------------------------
\* Bounds of the model
\* ------------------------------------------------------------------------
MaxChunks == 3
MaxTopK == 3
MaxTs == 2
MaxRuns == 2
MaxTextLen == 6

\* self.max_chunk_tokens, scaled down from 7000 to the size of model texts
max_chunk_tokens == 3
MaxLaws == 2

\* "every 50 laws" of process_dataset, scaled down to the model's datasets
SaveEvery == 2
MaxCsvRows == 2
MaxRowIds == 3
MaxNameLen == 3
MaxDfRows == 2
MaxNames == 2

\* get_embedding's default for its retries parameter
retries == 3

\* ------------------------------------------------------------------------
\* Variables
\* ------------------------------------------------------------------------
VARIABLES
    IS_PRODUCTION,          \* Config.IS_PRODUCTION
    SKLEARN_AVAILABLE,      \* rag_integration.SKLEARN_AVAILABLE
    now,                    \* wall clock, in timestamp tokens
    fs,                     \* snapshot files under the searched directories
    job,                    \* position of a running _save_final_results
    runs,                   \* number of batch runs started
    rag_pc,                 \* "new" before RAGSystem(), "ready" after
    chunks,                 \* RAGSystem.chunks
    embeddings,             \* RAGSystem.embeddings
    loaded_from,            \* which loader returned True: "cloud", "local", "none"
    latest_embedding_file,  \* _try_load_from_local's latest_embedding_file
    latest_chunk_file,      \* _try_load_from_local's latest_chunk_file
    searched,               \* a search_laws call has returned
    provider,               \* what the embedding provider did in that call
    query_embedding,        \* what get_query_embedding returned in that call
    top_k,                  \* its top_k argument
    results,                \* its return value
    escaped,                \* an exception left search_laws
    full_text,              \* chunk_text's text argument (a dataset cell)
    chunk_pc,               \* "call" before chunk_text ran, "done" after
    doc_chunks,             \* the list chunk_text returned
    dataset,                \* process_dataset's df, one row per law
    batch_pc,               \* position of process_dataset
    law_idx,                \* the row being processed (idx + 1)
    pending,                \* chunks of that row still to be embedded
    all_chunks,             \* process_dataset's all_chunks
    all_embeddings,         \* process_dataset's all_embeddings
    intermediate,           \* what the last _save_intermediate_results wrote
    batch_log,              \* process_dataset's progress, one entry per step
    db_chunks,              \* rows of the chunks table, in rowid order
    db_seq,                 \* the table's AUTOINCREMENT counter
    embedding_model,        \* LegalRAGDatabase.embedding_model, "none" for None
    search_logs,            \* number of rows of the search_logs table
    db_call,                \* the last call on the LegalRAGDatabase
    embed_pc,               \* position of a get_embedding call
    embed_text,             \* its text argument
    embed_responses,        \* what the provider does at each attempt
    embed_result,           \* what the call returned or raised
    df,                     \* LawMatcher's dataset, one row per law
    matcher_pc,             \* position of a call on the LawMatcher
    matcher_op,             \* the method called
    matcher_args,           \* its arguments
    matcher_out,            \* what it returned or raised
    limited_mode,           \* LegalAISystem.limited_mode
    main_pc,                \* position of a process_legal_question call
    main_calls,             \* the components that call invoked, in order
    main_response,          \* what the call returned
    th_pc,                  \* position of each concurrent search_laws call
    th_top_k,               \* its top_k argument
    th_response,            \* what the provider answered to its query
    th_query_embedding,     \* its local query_embedding
    th_similarities,        \* its local similarities
    th_top_indices,         \* its local top_indices
    th_results,             \* what it returned
    s3                      \* the snapshot objects in the cloud bucket

ragVars == <<IS_PRODUCTION, SKLEARN_AVAILABLE, rag_pc, chunks, embeddings,
             loaded_from, latest_embedding_file, latest_chunk_file>>
fsVars == <<now, fs, job, runs>>
searchVars == <<searched, provider, query_embedding, top_k, results, escaped>>

chunkVars == <<full_text, chunk_pc, doc_chunks>>
batchVars == <<dataset, batch_pc, law_idx, pending, all_chunks, all_embeddings,
               intermediate, batch_log>>
dbVars == <<db_chunks, db_seq, embedding_model, search_logs, db_call>>
embedVars == <<embed_pc, embed_text, embed_responses, embed_result>>

matcherVars == <<df, matcher_pc, matcher_op, matcher_args, matcher_out>>

mainVars == <<limited_mode, main_pc, main_calls, main_response>>

threadVars == <<th_pc, th_top_k, th_response, th_query_embedding,
                th_similarities, th_top_indices, th_results>>

vars == <<ragVars, fsVars, searchVars, chunkVars, batchVars, dbVars, embedVars,
          matcherVars, mainVars, threadVars, s3>>

\* ------------------------------------------------------------------------
\* Values
\* ------------------------------------------------------------------------
\* Python's None, for the fields before loading and for a failed query
\* embedding: a value that is no sequence.
None == [i \in {0} |-> 0]

Laws == {"CEVRE KANUNU", "IS KANUNU"}

\* mevzuatNo of a law, copied into each chunk as law_number
law_number_of(law_name) == IF law_name = "CEVRE KANUNU" THEN 2872 ELSE 4857

\* Embedding vectors in the model: two dimensions, integer norms.
Vectors == {<<0, 0>>, <<1, 0>>, <<3, 4>>}
QueryVectors == {<<1, 0>>, <<3, 4>>}

Min(a, b) == IF a < b THEN a ELSE b
Max(a, b) == IF a > b THEN a ELSE b

Dot(a, b) == a[1] * b[1] + a[2] * b[2]

\* np.linalg.norm of a model vector (all of them have an integer norm)
Norm(v) == CHOOSE n \in 0..(Dot(v, v)) : n * n = Dot(v, v)

\* Similarities are kept as exact multiples of 1/SimScale.
SimScale == Norm(<<3, 4>>) * Norm(<<3, 4>>)

\* IEEE NaN as numpy orders it: argsort puts it after every number.
NaN == SimScale + 1

\* ------------------------------------------------------------------------
\* Snapshots: an ordered chunk list and the embedding matrix saved with it
\* ------------------------------------------------------------------------
\* A snapshot is written by process_dataset from rows (law, vector): chunk i
\* carries the law's metadata and its position among the law's chunks.
SnapshotRows == UNION {[1..n -> Laws \X Vectors] : n \in 0..MaxChunks}

ChunkIndexIn(s, i) == Cardinality({j \in 1..(i - 1) : s[j][1] = s[i][1]})

ChunksOf(s) ==
    [i \in 1..Len(s) |->
        [chunk_id |-> <<law_number_of(s[i][1]), ChunkIndexIn(s, i)>>,
         law_name |-> s[i][1],
         law_number |-> law_number_of(s[i][1]),
         chunk_index |-> ChunkIndexIn(s, i)]]

EmbeddingsOf(s) == [i \in 1..Len(s) |-> s[i][2]]

\* ------------------------------------------------------------------------
\* RAGSystem.search_laws and what it calls
\* ------------------------------------------------------------------------
\* The provider either returns a vector for the query or raises.
ProviderError == [i \in {-1} |-> 0]
ProviderResponses == QueryVectors \cup {ProviderError}

get_query_embedding_zero(response) ==
    IF response = ProviderError THEN <<0, 0>> ELSE response

\* get_query_embedding: the vector, or None when the provider call raises
get_query_embedding(response) ==
    IF response = ProviderError THEN None ELSE response

NonZero(n) == IF n = 0 THEN 1 ELSE n

\* cosine_similarity(query_embedding, self.embeddings)[0]: sklearn's version
\* normalises rows and leaves a zero row at zero; the fallback divides.
cosine_similarity(q, E, sklearn) ==
    [i \in 1..Len(E) |->
        LET d == Dot(q, E[i])
            nq == Norm(q)
            nc == Norm(E[i])
        IN  IF sklearn
            THEN (SimScale * d) \div (NonZero(nq) * NonZero(nc))
            ELSE IF nq * nc = 0 THEN NaN
                 ELSE (SimScale * d) \div (nq * nc)]

\* np.argsort(similarities)[::-1]: every order of the indices S that is
\* descending in similarity; the order among equal values is not fixed by the
\* sort.
RECURSIVE DescendingOrders(_, _)
DescendingOrders(S, sim) ==
    IF S = {} THEN {<<>>}
    ELSE UNION {{<<i>> \o rest : rest \in DescendingOrders(S \ {i}, sim)} :
                   i \in {j \in S : \A m \in S : sim[j] >= sim[m]}}

argsort_reversed(sim) == DescendingOrders(1..Len(sim), sim)

AlreadySeen_never(law_name, seen_laws) == FALSE

\* "if law_name in seen_laws: continue"
AlreadySeen(law_name, seen_laws) == law_name \in seen_laws

\* The loop over top_indices. acc holds results, seen_laws and whether an
\* exception (IndexError on self.chunks[idx]) was raised.
RECURSIVE DedupWalk(_, _, _, _, _, _)
DedupWalk(top_indices, i, cs, sim, k, acc) ==
    IF i > Len(top_indices) THEN acc
    ELSE LET idx == top_indices[i] IN
         IF idx > Len(cs) THEN [acc EXCEPT !.raised = TRUE]
         ELSE LET law_name == cs[idx].law_name IN
              IF AlreadySeen(law_name, acc.seen_laws)
              THEN DedupWalk(top_indices, i + 1, cs, sim, k, acc)
              ELSE LET result == [rank |-> Len(acc.results) + 1,
                                  law_name |-> law_name,
                                  similarity |-> sim[idx],
                                  law_number |-> cs[idx].law_number]
                       acc2 == [results |-> Append(acc.results, result),
                                seen_laws |-> acc.seen_laws \cup {law_name},
                                raised |-> FALSE]
                   IN  IF Len(acc2.results) >= k THEN acc2
                       ELSE DedupWalk(top_indices, i + 1, cs, sim, k, acc2)

top_indices_of(order, k) == SubSeq(order, 1, Min(k, Len(order)))

\* "not self.chunks"
Falsy(cs) == cs = None \/ cs = <<>>

\* The set of outcomes of search_laws(query, top_k) on an instance holding
\* cs and E, when the provider answers the query with response.
search_laws(cs, E, sklearn, response, k) ==
    IF E = None \/ Falsy(cs)
    THEN {[ret |-> <<>>, query_embedding |-> None, escaped |-> FALSE]}
    ELSE LET qe == get_query_embedding(response) IN
         IF qe = None
         THEN {[ret |-> <<>>, query_embedding |-> None, escaped |-> FALSE]}
         ELSE IF Len(E) = 0
         THEN \* cosine_similarity rejects the empty array; caught at 213
              {[ret |-> <<>>, query_embedding |-> qe, escaped |-> FALSE]}
         ELSE LET sim == cosine_similarity(qe, E, sklearn) IN
              {LET acc == DedupWalk(top_indices_of(order, k), 1, cs, sim, k,
                                    [results |-> <<>>, seen_laws |-> {},
                                     raised |-> FALSE])
               IN  [ret |-> IF acc.raised THEN <<>> ELSE acc.results,
                    query_embedding |-> qe,
                    escaped |-> FALSE] : order \in argsort_reversed(sim)}

\* One call of search_laws on the constructed instance.
search_laws_call ==
    /\ rag_pc = "ready"
    /\ \E response \in ProviderResponses, k \in 1..MaxTopK :
         \E o \in search_laws(chunks, embeddings, SKLEARN_AVAILABLE, response, k) :
            /\ searched' = TRUE
            /\ provider' = response
            /\ query_embedding' = o.query_embedding
            /\ top_k' = k
            /\ results' = o.ret
            /\ escaped' = o.escaped
    /\ UNCHANGED <<ragVars, fsVars, chunkVars, batchVars, dbVars, embedVars, matcherVars, mainVars, threadVars, s3>>

\* ------------------------------------------------------------------------
\* Snapshot files and _save_final_results
\* ------------------------------------------------------------------------
\* The two directories _try_load_from_local globs (Config.RAG_EMBEDDINGS_DIR
\* equals the third pattern's directory). As path strings
\*   1: "../rag_system/embeddings_output"  <  2: "rag_system/embeddings_output".
Dirs == {1, 2}

Paths == [kind : {"emb", "chunks"}, dir : Dirs, ts : 1..MaxTs]
NoFile == [kind |-> "none", dir |-> 0, ts |-> 0]

Absent == [st |-> "absent", data |-> <<>>]
Partial == [st |-> "partial", data |-> <<>>]
Written(d) == [st |-> "ok", data |-> d]

\* Snapshots the batch job writes in the loader model.
JobSnapshots ==
    {<< <<"CEVRE KANUNU", <<1, 0>>>> >>,
     << <<"CEVRE KANUNU", <<1, 0>>>>, <<"IS KANUNU", <<3, 4>>>> >>}

IdleJob == [pc |-> "idle", dir |-> 0, ts |-> 0, chunks |-> <<>>, embeddings |-> <<>>]

\* the first step of _save_final_results(chunks, embeddings, output_dir): the
\* timestamp is taken and legal_chunks_<ts>.json is opened for writing
BeginSave(d, cs, es) ==
    /\ job.pc = "idle"
    /\ job' = [pc |-> "dump_chunks", dir |-> d, ts |-> now,
               chunks |-> cs, embeddings |-> es]
    /\ fs' = [fs EXCEPT ![[kind |-> "chunks", dir |-> d, ts |-> now]] = Partial]

Tick ==
    /\ now < MaxTs
    /\ now' = now + 1
    /\ UNCHANGED <<fs, job, runs, ragVars, searchVars, chunkVars, batchVars, dbVars, embedVars, matcherVars, mainVars, threadVars, s3>>

\* a run of the batch job reaches _save_final_results with its snapshot
save_open_chunks ==
    /\ runs < MaxRuns
    /\ \E d \in Dirs, s \in JobSnapshots :
         BeginSave(d, ChunksOf(s), EmbeddingsOf(s))
    /\ runs' = runs + 1
    /\ UNCHANGED <<now, ragVars, searchVars, chunkVars, batchVars, dbVars, embedVars, matcherVars, mainVars, threadVars, s3>>

\* json.dump finished and the file closed
save_dump_chunks ==
    /\ job.pc = "dump_chunks"
    /\ fs' = [fs EXCEPT ![[kind |-> "chunks", dir |-> job.dir, ts |-> job.ts]] =
                            Written(job.chunks)]
    /\ job' = [job EXCEPT !.pc = "save_embeddings"]
    /\ UNCHANGED <<now, runs, ragVars, searchVars, chunkVars, batchVars, dbVars, embedVars, matcherVars, mainVars, threadVars, s3>>

\* np.save opened legal_embeddings_<ts>.npy
save_open_embeddings ==
    /\ job.pc = "save_embeddings"
    /\ fs' = [fs EXCEPT ![[kind |-> "emb", dir |-> job.dir, ts |-> job.ts]] = Partial]
    /\ job' = [job EXCEPT !.pc = "write_embeddings"]
    /\ UNCHANGED <<now, runs, ragVars, searchVars, chunkVars, batchVars, dbVars, embedVars, matcherVars, mainVars, threadVars, s3>>

\* np.save finished; the pickle and statistics files follow and the job ends
save_write_embeddings ==
    /\ job.pc = "write_embeddings"
    /\ fs' = [fs EXCEPT ![[kind |-> "emb", dir |-> job.dir, ts |-> job.ts]] =
                            Written(job.embeddings)]
    /\ job' = IdleJob
    /\ UNCHANGED <<now, runs, ragVars, searchVars, chunkVars, batchVars, dbVars, embedVars, matcherVars, mainVars, threadVars, s3>>

\* ------------------------------------------------------------------------
\* RAGSystem.load_embeddings
\* ------------------------------------------------------------------------
\* Order of two path strings: the directory prefix decides, then the
\* fixed-width timestamp token.
PathLess(p, q) == p.dir < q.dir \/ (p.dir = q.dir /\ p.ts < q.ts)

\* sorted(files)[-1]
Latest(files) == CHOOSE p \in files : \A q \in files : q # p => PathLess(q, p)

Glob(f, kind) == {p \in Paths : p.kind = kind /\ f[p].st # "absent"}

\* _try_load_from_cloud: the module never imports os, so os.getenv raises
\* NameError, which the except clause turns into False.
\* the names rag_integration.py binds at module level (lines 6-12) and the
\* ones _try_load_from_cloud imports itself (lines 64-65)
ModuleNames ==
    {"np", "json", "glob", "OpenAI", "List", "Dict", "Optional", "logging",
     "Config", "boto3", "tempfile"}

\* the two objects _try_load_from_cloud downloads, when they are in the bucket
CloudSnapshot == <<<<"IS KANUNU", <<3, 4>>>>>>
NoObjects == [st |-> "absent", chunks |-> <<>>, embeddings |-> <<>>]
CloudObjects ==
    {NoObjects,
     [st |-> "present", chunks |-> ChunksOf(CloudSnapshot),
      embeddings |-> EmbeddingsOf(CloudSnapshot)]}

\* _try_load_from_cloud: os.getenv at line 67 is the first statement after
\* the imports; an unbound name raises NameError, which the except clause
\* turns into False. Otherwise a failed download returns False and a
\* completed one sets both fields.
_try_load_from_cloud(self) ==
    IF "os" \notin ModuleNames \/ s3.st # "present"
    THEN [ok |-> FALSE, embeddings |-> self.embeddings, chunks |-> self.chunks,
          latest_embedding_file |-> NoFile, latest_chunk_file |-> NoFile]
    ELSE [ok |-> TRUE, embeddings |-> s3.embeddings, chunks |-> s3.chunks,
          latest_embedding_file |-> NoFile, latest_chunk_file |-> NoFile]

\* _try_load_from_local, as the fields it leaves and the value it returns
_try_load_from_local(f, self) ==
    LET embedding_files == Glob(f, "emb")
        chunk_files == Glob(f, "chunks")
    IN  IF embedding_files = {} \/ chunk_files = {}
        THEN [ok |-> FALSE, embeddings |-> self.embeddings, chunks |-> self.chunks,
              latest_embedding_file |-> NoFile, latest_chunk_file |-> NoFile]
        ELSE LET le == Latest(embedding_files)
                 lc == Latest(chunk_files)
             IN  IF f[le].st = "partial"
                 THEN \* np.load raises
                      [ok |-> FALSE, embeddings |-> self.embeddings,
                       chunks |-> self.chunks,
                       latest_embedding_file |-> le, latest_chunk_file |-> lc]
                 ELSE IF f[lc].st = "partial"
                 THEN \* json.load raises after self.embeddings was set
                      [ok |-> FALSE, embeddings |-> f[le].data,
                       chunks |-> self.chunks,
                       latest_embedding_file |-> le, latest_chunk_file |-> lc]
                 ELSE [ok |-> TRUE, embeddings |-> f[le].data,
                       chunks |-> f[lc].data,
                       latest_embedding_file |-> le, latest_chunk_file |-> lc]

load_embeddings_keep(f, production, self) ==
    LET cloud == IF production THEN _try_load_from_cloud(self)
                 ELSE [ok |-> FALSE, embeddings |-> self.embeddings,
                       chunks |-> self.chunks,
                       latest_embedding_file |-> NoFile,
                       latest_chunk_file |-> NoFile]
        local == _try_load_from_local(f, cloud)
    IN  IF cloud.ok THEN [cloud EXCEPT !.ok = "cloud"]
        ELSE IF local.ok THEN [local EXCEPT !.ok = "local"]
        ELSE [local EXCEPT !.ok = "none"]

\* load_embeddings: cloud first in production, then local, else demo mode
load_embeddings(f, production, self) ==
    LET cloud == IF production THEN _try_load_from_cloud(self)
                 ELSE [ok |-> FALSE, embeddings |-> self.embeddings,
                       chunks |-> self.chunks,
                       latest_embedding_file |-> NoFile,
                       latest_chunk_file |-> NoFile]
        local == _try_load_from_local(f, cloud)
    IN  IF cloud.ok THEN [cloud EXCEPT !.ok = "cloud"]
        ELSE IF local.ok THEN [local EXCEPT !.ok = "local"]
        ELSE [local EXCEPT !.ok = "none", !.chunks = <<>>, !.embeddings = None]

\* RAGSystem.__init__: fields set to None, then load_embeddings
RAGSystem_init ==
    /\ rag_pc = "new"
    /\ LET r == load_embeddings(fs, IS_PRODUCTION,
                                [chunks |-> None, embeddings |-> None])
       IN  /\ chunks' = r.chunks
           /\ embeddings' = r.embeddings
           /\ loaded_from' = r.ok
           /\ latest_embedding_file' = r.latest_embedding_file
           /\ latest_chunk_file' = r.latest_chunk_file
    /\ rag_pc' = "ready"
    /\ UNCHANGED <<IS_PRODUCTION, SKLEARN_AVAILABLE, fsVars, searchVars, chunkVars, batchVars, dbVars, embedVars, matcherVars, mainVars, threadVars, s3>>

\* ------------------------------------------------------------------------
\* LegalDocumentEmbedder.chunk_text
\* ------------------------------------------------------------------------
\* A text is a sequence of symbols: "M" is one match of the article pattern
\* (MADDE <n>), "w" a word, "." a full stop and " " a blank.
Symbols == {"M", "w", ".", " "}

Texts == UNION {[1..n -> Symbols] : n \in 0..MaxTextLen}

\* an empty spreadsheet cell, which pandas reads as float NaN
MissingText == [i \in {0} |-> 1]

\* str(text): a string is itself, NaN prints as the word nan
str(text) == IF text = MissingText THEN <<"w">> ELSE text

RECURSIVE lstrip(_)
lstrip(t) ==
    IF t # <<>> /\ Head(t) = " " THEN lstrip(Tail(t)) ELSE t

RECURSIVE rstrip(_)
rstrip(t) ==
    IF t # <<>> /\ t[Len(t)] = " " THEN rstrip(SubSeq(t, 1, Len(t) - 1)) ELSE t

\* text.strip()
strip(t) == rstrip(lstrip(t))

\* count_tokens: len(encoding.encode(text)). Every word, article header and
\* full stop is a token and takes a blank directly before it into the token;
\* what is left of a run of blanks (all but its last blank, or all of it at
\* the end of the text) is one token, as in the cl100k_base splitting pattern.
count_tokens(t) ==
    Cardinality({i \in 1..Len(t) : t[i] # " "})
    + Cardinality({i \in 1..Len(t) :
            /\ t[i] = " "
            /\ (i = 1 \/ t[i - 1] # " ")
            /\ (i = Len(t) \/ t[i + 1] = " ")})

\* re.split(article_pattern, text)
RECURSIVE article_splits(_)
article_splits(t) ==
    IF \A i \in 1..Len(t) : t[i] # "M" THEN <<t>>
    ELSE LET i == CHOOSE k \in 1..Len(t) :
                      t[k] = "M" /\ \A j \in 1..(k - 1) : t[j] # "M"
         IN  <<SubSeq(t, 1, i - 1)>> \o article_splits(SubSeq(t, i + 1, Len(t)))

\* text.split('. ')
RECURSIVE split_sentences(_)
split_sentences(t) ==
    IF \A i \in 1..(Len(t) - 1) : ~(t[i] = "." /\ t[i + 1] = " ") THEN <<t>>
    ELSE LET i == CHOOSE k \in 1..(Len(t) - 1) :
                      /\ t[k] = "." /\ t[k + 1] = " "
                      /\ \A j \in 1..(k - 1) : ~(t[j] = "." /\ t[j + 1] = " ")
         IN  <<SubSeq(t, 1, i - 1)>> \o split_sentences(SubSeq(t, i + 2, Len(t)))

\* the longest prefix of a text that stays within the ceiling
RECURSIVE TruncateTokens(_)
TruncateTokens(t) ==
    IF count_tokens(t) <= max_chunk_tokens THEN t
    ELSE TruncateTokens(SubSeq(t, 1, Len(t) - 1))

_create_chunk_truncated(text, law_info, chunk_idx) ==
    [chunk_id |-> <<law_info.mevzuatNo, chunk_idx>>,
     text |-> strip(TruncateTokens(text)),
     tokens |-> count_tokens(TruncateTokens(text)),
     law_name |-> law_info.mevAdi,
     law_number |-> law_info.mevzuatNo,
     chunk_index |-> chunk_idx]

\* _create_chunk
_create_chunk(text, law_info, chunk_idx) ==
    [chunk_id |-> <<law_info.mevzuatNo, chunk_idx>>,
     text |-> strip(text),
     tokens |-> count_tokens(text),
     law_name |-> law_info.mevAdi,
     law_number |-> law_info.mevzuatNo,
     chunk_index |-> chunk_idx]

\* f"{article_num} {article_text}"
article_content_of(article_text) == <<"M", " ">> \o article_text

ExceedsLimit_current(current_chunk_tokens, article_tokens) ==
    current_chunk_tokens > max_chunk_tokens

\* "current_chunk_tokens + article_tokens > self.max_chunk_tokens"
ExceedsLimit(current_chunk_tokens, article_tokens) ==
    current_chunk_tokens + article_tokens > max_chunk_tokens

\* the loop over the articles, lines 64-75
RECURSIVE ArticleLoop(_, _, _, _, _, _)
ArticleLoop(splits, i, current_chunk, current_chunk_tokens, out, law_info) ==
    IF i > Len(splits) THEN [current_chunk |-> current_chunk, chunks |-> out]
    ELSE LET article_content == article_content_of(splits[i])
             article_tokens == count_tokens(article_content)
         IN  IF ExceedsLimit(current_chunk_tokens, article_tokens)
                  /\ strip(current_chunk) # <<>>
             THEN ArticleLoop(splits, i + 1, article_content, article_tokens,
                              Append(out, _create_chunk(current_chunk, law_info, Len(out))),
                              law_info)
             ELSE ArticleLoop(splits, i + 1,
                              current_chunk \o <<" ">> \o article_content,
                              current_chunk_tokens + article_tokens, out, law_info)

\* the loop over the sentences, lines 93-101
RECURSIVE SentenceLoop(_, _, _, _, _)
SentenceLoop(sentences, i, current_chunk, out, law_info) ==
    IF i > Len(sentences) THEN [current_chunk |-> current_chunk, chunks |-> out]
    ELSE LET sentence == sentences[i]
             test_chunk == IF current_chunk # <<>>
                           THEN current_chunk \o <<".", " ">> \o sentence
                           ELSE sentence
         IN  IF count_tokens(test_chunk) > max_chunk_tokens
             THEN SentenceLoop(sentences, i + 1, sentence,
                               IF current_chunk # <<>>
                               THEN Append(out, _create_chunk(current_chunk, law_info, Len(out)))
                               ELSE out,
                               law_info)
             ELSE SentenceLoop(sentences, i + 1, test_chunk, out, law_info)

FinalChunk_dropped(r, law_info) == r.chunks

\* "if current_chunk.strip(): chunks.append(...)" after either loop
FinalChunk(r, law_info) ==
    IF strip(r.current_chunk) # <<>>
    THEN Append(r.chunks, _create_chunk(r.current_chunk, law_info, Len(r.chunks)))
    ELSE r.chunks

_chunk_by_sentences(text, law_info) ==
    FinalChunk(SentenceLoop(split_sentences(text), 1, <<>>, <<>>, law_info), law_info)

chunk_text(cell, law_info) ==
    LET text == str(cell)
        splits == article_splits(text)
    IN  IF Len(splits) > 1
        THEN FinalChunk(ArticleLoop(Tail(splits), 1, splits[1],
                                    count_tokens(splits[1]), <<>>, law_info),
                        law_info)
        ELSE _chunk_by_sentences(text, law_info)

\* the metadata process_dataset passes for the law being chunked
LawInfo(law_name) == [mevzuatNo |-> law_number_of(law_name), mevAdi |-> law_name]

\* one call chunk_text(row['full_text'], law_info)
chunk_text_call ==
    /\ chunk_pc = "call"
    /\ doc_chunks' = chunk_text(full_text, LawInfo("CEVRE KANUNU"))
    /\ chunk_pc' = "done"
    /\ UNCHANGED <<full_text, ragVars, fsVars, searchVars, batchVars, dbVars, embedVars, matcherVars, mainVars, threadVars, s3>>

NoChunking ==
    /\ full_text = <<>>
    /\ chunk_pc = "idle"
    /\ doc_chunks = <<>>

\* ------------------------------------------------------------------------
\* LegalDocumentEmbedder.get_embedding and process_dataset
\* ------------------------------------------------------------------------
\* the vector the provider returns for a text
Embedding(text) == <<"embedding", text>>

\* what one call of openai.embeddings.create does
Responses == {"ok", "rate_limit", "error"}

RECURSIVE Pow2(_)
Pow2(n) == IF n = 0 THEN 1 ELSE 2 * Pow2(n - 1)

\* get_embedding from attempt number attempt (0-based) on; responses[a + 1]
\* is the provider's behaviour at attempt a
RECURSIVE get_embedding_from(_, _, _)
get_embedding_from(text, responses, attempt) ==
    IF attempt >= retries
    THEN [raised |-> TRUE, value |-> None, calls |-> 0, waits |-> <<>>]
    ELSE LET r == responses[attempt + 1] IN
         IF r = "ok"
         THEN [raised |-> FALSE, value |-> Embedding(text), calls |-> 1,
               waits |-> <<>>]
         ELSE IF r = "error" /\ attempt = retries - 1
         THEN [raised |-> TRUE, value |-> None, calls |-> 1, waits |-> <<>>]
         ELSE LET rest == get_embedding_from(text, responses, attempt + 1)
                  wait_time == IF r = "rate_limit" THEN Pow2(attempt) * 5 ELSE 2
              IN  [rest EXCEPT !.calls = rest.calls + 1,
                               !.waits = <<wait_time>> \o rest.waits]

ZeroEmbedding == <<"zero", <<>>>>

get_embedding_substitute(text, responses) ==
    LET e == get_embedding_from(text, responses, 0)
    IN  IF e.raised THEN [e EXCEPT !.raised = FALSE, !.value = ZeroEmbedding]
        ELSE e

get_embedding(text, responses) == get_embedding_from(text, responses, 0)

\* One call of get_embedding with the default number of retries.
get_embedding_call ==
    /\ embed_pc = "call"
    /\ embed_result' = get_embedding(embed_text, embed_responses)
    /\ embed_pc' = IF embed_result'.raised THEN "raised" ELSE "returned"
    /\ UNCHANGED <<embed_text, embed_responses>>
    /\ UNCHANGED <<ragVars, fsVars, searchVars, chunkVars, batchVars, dbVars,
                   matcherVars, mainVars, threadVars, s3>>

NoEmbedResult == [raised |-> FALSE, value |-> None, calls |-> 0, waits |-> <<>>]

NoEmbedCall ==
    /\ embed_pc = "idle"
    /\ embed_text = <<>>
    /\ embed_responses = <<>>
    /\ embed_result = NoEmbedResult

\* texts of the dataset rows in the batch model: an empty cell, a one-chunk
\* text, and a preamble with an article that do not fit into one chunk
TwoChunkText == <<"w", "M", "w", "w", "w">>

BatchTexts == {MissingText, <<"w">>, TwoChunkText}

DatasetRows ==
    {[mevzuatNo |-> law_number_of(l), mevAdi |-> l, full_text |-> t] :
        l \in Laws, t \in BatchTexts}

Datasets == UNION {[1..n -> DatasetRows] : n \in 0..MaxLaws}

\* chunks_no_embed: the chunk without its 'embedding' key
no_embed(c) ==
    [chunk_id |-> c.chunk_id, text |-> c.text, tokens |-> c.tokens,
     law_name |-> c.law_name, law_number |-> c.law_number,
     chunk_index |-> c.chunk_index]

chunks_no_embed(cs) == [i \in 1..Len(cs) |-> no_embed(cs[i])]

\* an entry of the progress record: the row, and the chunk_index for the
\* entries about a chunk
LogEntry(ev, law, chunk) == [ev |-> ev, law |-> law, chunk |-> chunk]

\* lines 164-181: the next row is read and its text chunked; after the last
\* row the loop ends
process_law ==
    /\ batch_pc = "law"
    /\ IF law_idx <= Len(dataset)
       THEN /\ pending' = chunk_text(dataset[law_idx].full_text,
                                     [mevzuatNo |-> dataset[law_idx].mevzuatNo,
                                      mevAdi |-> dataset[law_idx].mevAdi])
            /\ batch_pc' = "embed"
       ELSE /\ pending' = <<>>
            /\ batch_pc' = "save"
    /\ batch_log' = IF law_idx <= Len(dataset)
                    THEN Append(batch_log, LogEntry("law", law_idx, 0))
                    ELSE batch_log
    /\ UNCHANGED <<dataset, law_idx, all_chunks, all_embeddings, intermediate>>
    /\ UNCHANGED <<ragVars, fsVars, searchVars, chunkVars, dbVars, embedVars, matcherVars, mainVars, threadVars, s3>>

\* lines 198-200: the except clause prints the error and continues with the
\* next row
on_law_error_abort(idx) == [batch_pc |-> "aborted", law_idx |-> idx]

on_law_error(idx) == [batch_pc |-> "law", law_idx |-> idx + 1]

with_embedding(chunk, embedding) ==
    [chunk_id |-> chunk.chunk_id, text |-> chunk.text,
     tokens |-> chunk.tokens, law_name |-> chunk.law_name,
     law_number |-> chunk.law_number, chunk_index |-> chunk.chunk_index,
     embedding |-> embedding]

\* the chunk is appended before its embedding is requested
all_chunks_on_error_appended(cs, chunk) == Append(cs, with_embedding(chunk, None))

\* all_chunks when get_embedding raised for chunk: line 188 is not reached
all_chunks_on_error(cs, chunk) == cs

\* lines 184-192 and 198-200: one chunk is embedded and appended, or
\* get_embedding raises and the rest of the law is skipped
embed_chunk ==
    /\ batch_pc = "embed"
    /\ pending # <<>>
    /\ \E responses \in [1..retries -> Responses] :
         LET chunk == Head(pending)
             e == get_embedding(chunk.text, responses)
         IN  IF e.raised
             THEN /\ pending' = <<>>
                  /\ law_idx' = on_law_error(law_idx).law_idx
                  /\ batch_pc' = on_law_error(law_idx).batch_pc
                  /\ batch_log' = Append(batch_log,
                        LogEntry("error", law_idx, chunk.chunk_index))
                  /\ all_chunks' = all_chunks_on_error(all_chunks, chunk)
                  /\ UNCHANGED all_embeddings
             ELSE /\ all_chunks' = Append(all_chunks,
                                          with_embedding(chunk, e.value))
                  /\ all_embeddings' = Append(all_embeddings, e.value)
                  /\ pending' = Tail(pending)
                  /\ batch_log' = Append(batch_log,
                        LogEntry("embedded", law_idx, chunk.chunk_index))
                  /\ UNCHANGED <<law_idx, batch_pc>>
    /\ UNCHANGED <<dataset, intermediate>>
    /\ UNCHANGED <<ragVars, fsVars, searchVars, chunkVars, dbVars, embedVars, matcherVars, mainVars, threadVars, s3>>

\* lines 194-196: all chunks of the law are embedded; every SaveEvery laws
\* _save_intermediate_results writes what has been accumulated
end_law ==
    /\ batch_pc = "embed"
    /\ pending = <<>>
    /\ intermediate' = IF law_idx % SaveEvery = 0
                       THEN [chunks |-> chunks_no_embed(all_chunks),
                             embeddings |-> all_embeddings,
                             processed_count |-> law_idx]
                       ELSE intermediate
    /\ law_idx' = law_idx + 1
    /\ batch_pc' = "law"
    /\ UNCHANGED <<dataset, pending, all_chunks, all_embeddings, batch_log>>
    /\ UNCHANGED <<ragVars, fsVars, searchVars, chunkVars, dbVars, embedVars, matcherVars, mainVars, threadVars, s3>>

\* line 203: _save_final_results(all_chunks, all_embeddings, output_dir)
final_save ==
    /\ batch_pc = "save"
    /\ \E d \in Dirs : BeginSave(d, chunks_no_embed(all_chunks), all_embeddings)
    /\ batch_pc' = "saving"
    /\ UNCHANGED <<dataset, law_idx, pending, all_chunks, all_embeddings,
                   intermediate, batch_log>>
    /\ UNCHANGED <<now, runs, ragVars, searchVars, chunkVars, dbVars, embedVars, matcherVars, mainVars, threadVars, s3>>

\* line 205: _save_final_results has returned
process_dataset_return ==
    /\ batch_pc = "saving"
    /\ job.pc = "idle"
    /\ batch_pc' = "done"
    /\ UNCHANGED <<dataset, law_idx, pending, all_chunks, all_embeddings,
                   intermediate, batch_log>>
    /\ UNCHANGED <<ragVars, fsVars, searchVars, chunkVars, dbVars, embedVars, matcherVars, mainVars, threadVars, s3>>

NoIntermediate == [chunks |-> <<>>, embeddings |-> <<>>, processed_count |-> 0]

NoBatch ==
    /\ dataset = <<>>
    /\ batch_pc = "idle"
    /\ law_idx = 0
    /\ pending = <<>>
    /\ all_chunks = <<>>
    /\ all_embeddings = <<>>
    /\ intermediate = NoIntermediate
    /\ batch_log = <<>>

\* ------------------------------------------------------------------------
\* LegalRAGDatabase.load_data (the chunks table)
\* ------------------------------------------------------------------------
\* law_type and chunk_type of a CSV row
ChunkKinds == {<<"KANUN", "article">>, <<"YONETMELIK", "preamble">>}

\* rows of the chunks CSV file
CsvRows ==
    {[chunk_id |-> c, text |-> t, law_type |-> k[1], chunk_type |-> k[2]] :
        c \in {<<2872, 0>>, <<2872, 1>>}, t \in {<<"w">>, <<"w", "w">>},
        k \in ChunkKinds}

CsvFiles == UNION {[1..n -> CsvRows] : n \in 1..MaxCsvRows}

\* INSERT OR REPLACE INTO chunks (... without embedding): a row that holds
\* the same chunk_id (UNIQUE) is deleted, the new row gets the next id and a
\* NULL embedding
NoDbCall ==
    [op |-> "none", raised |-> FALSE, query |-> <<>>, top_k |-> 0,
     law_type_filter |-> "", chunk_type_filter |-> "", results |-> <<>>]

DbCall(op, raised) == [NoDbCall EXCEPT !.op = op, !.raised = raised]

\* an upsert that writes the listed columns of the row in place
InsertOrReplace_keep(t, row) ==
    IF \E i \in DOMAIN t.rows : t.rows[i].chunk_id = row.chunk_id
    THEN [rows |-> [i \in DOMAIN t.rows |->
                       IF t.rows[i].chunk_id = row.chunk_id
                       THEN [t.rows[i] EXCEPT !.text = row.text,
                                              !.law_type = row.law_type,
                                              !.chunk_type = row.chunk_type]
                       ELSE t.rows[i]],
          seq |-> t.seq + 1]
    ELSE [rows |-> Append(t.rows,
                     [id |-> t.seq + 1, chunk_id |-> row.chunk_id,
                      law_type |-> row.law_type, chunk_type |-> row.chunk_type,
                      text |-> row.text, embedding |-> None]),
          seq |-> t.seq + 1]

InsertOrReplace(t, row) ==
    [rows |-> Append(SelectSeq(t.rows, LAMBDA r : r.chunk_id # row.chunk_id),
                     [id |-> t.seq + 1, chunk_id |-> row.chunk_id,
                      law_type |-> row.law_type, chunk_type |-> row.chunk_type,
                      text |-> row.text, embedding |-> None]),
     seq |-> t.seq + 1]

RECURSIVE InsertAll(_, _, _)
InsertAll(t, csv, i) ==
    IF i > Len(csv) THEN t ELSE InsertAll(InsertOrReplace(t, csv[i]), csv, i + 1)

\* load_data(chunks_file, metadata_file), the chunk rows
load_data ==
    /\ \E csv \in CsvFiles :
         /\ db_seq + Len(csv) <= MaxRowIds
         /\ LET t == InsertAll([rows |-> db_chunks, seq |-> db_seq], csv, 1)
            IN  /\ db_chunks' = t.rows
                /\ db_seq' = t.seq
    /\ db_call' = DbCall("load_data", FALSE)
    /\ UNCHANGED <<embedding_model, search_logs>>
    /\ UNCHANGED <<ragVars, fsVars, searchVars, chunkVars, batchVars, embedVars, matcherVars, mainVars, threadVars, s3>>

\* load_embedding_model(model_type): the model is set, or ValueError is
\* raised when the dependencies of model_type are missing
load_embedding_model ==
    /\ \E available \in BOOLEAN :
         /\ embedding_model' = IF available THEN "sentence_transformer"
                                ELSE embedding_model
         /\ db_call' = DbCall("load_embedding_model", ~available)
    /\ UNCHANGED <<db_chunks, db_seq, search_logs>>
    /\ UNCHANGED <<ragVars, fsVars, searchVars, chunkVars, batchVars, embedVars, matcherVars, mainVars, threadVars, s3>>

\* get_embeddings([text])[0]: the model's vector for a text
get_embeddings(text) == IF Len(text) = 1 THEN <<1, 0>> ELSE <<3, 4>>

\* generate_embeddings(batch_size=50), scaled
batch_size == 2

\* "SELECT id, text FROM chunks WHERE embedding IS NULL": positions of the
\* pending rows, in table order
PendingRows(rows) ==
    SelectSeq([i \in 1..Len(rows) |-> i], LAMBDA i : rows[i].embedding = None)

NumBatches(n) == (n + batch_size - 1) \div batch_size

\* the table after the first b batches of the pending rows were embedded and
\* stored with "UPDATE chunks SET embedding = ? WHERE id = ?"
StoreBatches(rows, b) ==
    LET todo == PendingRows(rows)
        stored == {rows[todo[j]].id : j \in 1..Min(Len(todo), b * batch_size)}
    IN  [i \in 1..Len(rows) |->
            IF rows[i].id \in stored
            THEN [rows[i] EXCEPT !.embedding = get_embeddings(rows[i].text)]
            ELSE rows[i]]

\* generate_embeddings: ValueError without a model; otherwise the pending
\* rows are embedded batch by batch, each batch committed, and a failure of
\* get_embeddings on a batch leaves the call at that batch
generate_embeddings ==
    /\ IF embedding_model = "none"
       THEN /\ db_call' = DbCall("generate_embeddings", TRUE)
            /\ UNCHANGED db_chunks
       ELSE \E b \in 0..NumBatches(Len(PendingRows(db_chunks))) :
               /\ db_chunks' = StoreBatches(db_chunks, b)
               /\ db_call' = DbCall("generate_embeddings",
                                     b < NumBatches(Len(PendingRows(db_chunks))))
    /\ UNCHANGED <<db_seq, embedding_model, search_logs>>
    /\ UNCHANGED <<ragVars, fsVars, searchVars, chunkVars, batchVars, embedVars, matcherVars, mainVars, threadVars, s3>>

\* Arguments of search: a filter left at None (or empty) is written ""
DbQueries == {<<"w">>, <<"w", "w">>}
TopKs == {1, 2, 5}
LawTypeFilters == {"", "KANUN"}
ChunkTypeFilters == {"", "preamble"}
MaxSearches == 1

sql_conditions_law_only(row, law_type_filter, chunk_type_filter) ==
    /\ row.embedding # None
    /\ (law_type_filter # "" => row.law_type = law_type_filter)

\* the WHERE clause search builds: "embedding IS NOT NULL", and one equality
\* per filter that is truthy
sql_conditions(row, law_type_filter, chunk_type_filter) ==
    /\ row.embedding # None
    /\ (law_type_filter # "" => row.law_type = law_type_filter)
    /\ (chunk_type_filter # "" => row.chunk_type = chunk_type_filter)

\* cosine_similarity([query_embedding], [embedding])[0][0]
similarity_of(q, embedding) ==
    cosine_similarity(q, <<embedding>>, TRUE)[1]

\* similarities.sort(key=lambda x: x[0], reverse=True): a stable sort, equal
\* keys stay in the order of the fetched rows
RECURSIVE SortDescending(_, _)
SortDescending(S, sims) ==
    IF S = {} THEN <<>>
    ELSE LET best == CHOOSE i \in S :
                        \A j \in S : \/ sims[i][1] > sims[j][1]
                                     \/ sims[i][1] = sims[j][1] /\ i <= j
         IN  <<sims[best]>> \o SortDescending(S \ {best}, sims)

\* the list search returns
search_results(rows, query, k, law_type_filter, chunk_type_filter) ==
    LET q_embedding == get_embeddings(query)
        fetched == SelectSeq(rows, LAMBDA r :
                       sql_conditions(r, law_type_filter, chunk_type_filter))
        similarities == [i \in 1..Len(fetched) |->
                            <<similarity_of(q_embedding, fetched[i].embedding),
                              fetched[i]>>]
        sorted == SortDescending(1..Len(fetched), similarities)
        top_results == SubSeq(sorted, 1, Min(k, Len(sorted)))
    IN  [i \in 1..Len(top_results) |->
            [chunk_id |-> top_results[i][2].chunk_id,
             law_type |-> top_results[i][2].law_type,
             chunk_type |-> top_results[i][2].chunk_type,
             text |-> top_results[i][2].text,
             similarity_score |-> top_results[i][1]]]

\* search(query, top_k, law_type_filter, chunk_type_filter): the query
\* embedding fails without a model (embedding_type is None); otherwise the
\* results are returned and the search is logged
search ==
    /\ search_logs < MaxSearches
    /\ \E query \in DbQueries, k \in TopKs, lf \in LawTypeFilters,
          cf \in ChunkTypeFilters :
         LET args == [NoDbCall EXCEPT !.op = "search", !.query = query,
                         !.top_k = k, !.law_type_filter = lf,
                         !.chunk_type_filter = cf]
         IN  IF embedding_model = "none"
             THEN /\ db_call' = [args EXCEPT !.raised = TRUE]
                  /\ UNCHANGED search_logs
             ELSE /\ db_call' = [args EXCEPT !.results =
                                    search_results(db_chunks, query, k, lf, cf)]
                  /\ search_logs' = search_logs + 1
    /\ UNCHANGED <<db_chunks, db_seq, embedding_model>>
    /\ UNCHANGED <<ragVars, fsVars, searchVars, chunkVars, batchVars, embedVars, matcherVars, mainVars, threadVars, s3>>

InitDb ==
    /\ db_chunks = <<>>
    /\ db_seq = 0
    /\ embedding_model = "none"
    /\ search_logs = 0
    /\ db_call = NoDbCall

\* ------------------------------------------------------------------------
\* LawMatcher
\* ------------------------------------------------------------------------
\* characters of requested names: letters, the blank and the full stop; the
\* dataset spells the first letter in the other case
NameSymbols == {"A", "b", " ", "."}

Names == UNION {[1..n -> NameSymbols] : n \in 0..MaxNameLen}

\* a full_text of n characters
TextOfLen(n) == <<n>>

\* dataset rows: mevAdi and full_text may be empty cells
DfRows ==
    {[mevAdi |-> <<"a", " ", "b">>, full_text |-> TextOfLen(400)],
     [mevAdi |-> <<"b">>, full_text |-> TextOfLen(150)],
     [mevAdi |-> <<"a", "b">>, full_text |-> MissingText],
     [mevAdi |-> MissingText, full_text |-> TextOfLen(150)]}

Dfs == UNION {[1..n -> DfRows] : n \in 0..MaxDfRows}

\* case folding of re.IGNORECASE
lower(c) == IF c = "A" THEN "a" ELSE c

\* re.search(pat, s, re.IGNORECASE): pat is a regular expression, in which a
\* full stop matches any character
regex_search(pat, s) ==
    \E pos \in 0..(Len(s) - Len(pat)) :
        \A i \in 1..Len(pat) :
            pat[i] = "." \/ lower(pat[i]) = lower(s[pos + i])

\* Series.str.contains(pat, case=False, na=False) on one cell
str_contains(cell, pat) == cell # MissingText /\ regex_search(pat, cell)

\* law_name.split()
RECURSIVE split(_)
split(t) ==
    LET u == lstrip(t) IN
    IF u = <<>> THEN <<>>
    ELSE LET k == IF \A i \in 1..Len(u) : u[i] # " " THEN Len(u) + 1
                  ELSE CHOOSE i \in 1..Len(u) :
                           u[i] = " " /\ \A j \in 1..(i - 1) : u[j] # " "
         IN  <<SubSeq(u, 1, k - 1)>> \o split(SubSeq(u, k, Len(u)))

Raised == [raised |-> TRUE, value |-> None]

\* None where a law dictionary is expected
NoneLaw == [law_name |-> None]

Returned(v) == [raised |-> FALSE, value |-> v]

\* the dictionary built from row i; len(law_data['full_text']) is evaluated
\* for the default of text_length and raises TypeError on an empty cell
law_dict(d, i) ==
    IF d[i].full_text = MissingText THEN Raised
    ELSE Returned([row |-> i, law_name |-> d[i].mevAdi,
                   full_text |-> d[i].full_text])

\* iloc[0] of the rows selected by the mask
iloc0(S) == CHOOSE i \in S : \A j \in S : i <= j

\* the try block of find_law_by_name, lines 47-84
find_law_by_name_body(d, law_name) ==
    LET exact_match == {i \in DOMAIN d : str_contains(d[i].mevAdi, law_name)}
    IN  IF exact_match # {} THEN law_dict(d, iloc0(exact_match))
        ELSE IF split(law_name) = <<>> THEN Raised
        ELSE LET partial_matches ==
                     {i \in DOMAIN d : str_contains(d[i].mevAdi, split(law_name)[1])}
             IN  IF partial_matches # {} THEN law_dict(d, iloc0(partial_matches))
                 ELSE Returned(NoneLaw)

find_law_by_name_uncaught(d, law_name) == find_law_by_name_body(d, law_name)

\* find_law_by_name: "except Exception" logs and returns None
find_law_by_name(d, law_name) ==
    LET r == find_law_by_name_body(d, law_name)
    IN  IF r.raised THEN Returned(NoneLaw) ELSE r

\* find_multiple_laws, the loop from name number i on
RECURSIVE find_multiple_laws_from(_, _, _, _)
find_multiple_laws_from(d, law_names, i, results_) ==
    IF i > Len(law_names) THEN Returned(results_)
    ELSE LET law_data == find_law_by_name(d, law_names[i])
         IN  IF law_data.raised THEN Raised
             ELSE find_multiple_laws_from(d, law_names, i + 1,
                      IF law_data.value # NoneLaw
                      THEN Append(results_, law_data.value)
                      ELSE results_)

find_multiple_laws(d, law_names) == find_multiple_laws_from(d, law_names, 1, <<>>)

\* number of characters of text_preview
PreviewLen == 200

\* len of: full_text[:200] + "..." if len(full_text) > 200 else full_text
text_preview_len(text) ==
    IF text[1] > PreviewLen THEN PreviewLen + 3 ELSE text[1]

\* get_laws_summary
get_laws_summary(d, law_names) ==
    LET found == find_multiple_laws(d, law_names)
    IN  IF found.raised THEN Raised
        ELSE Returned([i \in 1..Len(found.value) |->
                 [row |-> found.value[i].row,
                  law_name |-> found.value[i].law_name,
                  text_preview_len |-> text_preview_len(found.value[i].full_text)]])

\* A string of get_combined_law_text is a sequence of pieces: the header of
\* a law, characters 1..len of its text, the closing line of 50 "=", or the
\* truncation marker.
Piece(kind, row, len) == [kind |-> kind, row |-> row, len |-> len]

RECURSIVE StrLen(_)
StrLen(pieces) ==
    IF pieces = <<>> THEN 0 ELSE Head(pieces).len + StrLen(Tail(pieces))

\* characters of law_number (4), acceptance_date (19) and law_type (28) in
\* a header
MetaLen == 51

\* "\n\n=== {law_name} ===\nKanun No: ...\nKabul Tarihi: ...\nTürü: ...\n\n"
HeaderLen(law) == 45 + Len(law.law_name) + MetaLen

\* "\n" + "=" * 50
FooterLen == 51

\* "...\n[Metin kısaltıldı]"
MarkerLen == 22

\* the reserve subtracted from the remaining space, and the least space for
\* which a truncated law is still added
Reserve == 100
MinSpace == 200

law_section_of(law) ==
    <<Piece("header", law.row, HeaderLen(law)),
      Piece("text", law.row, law.full_text[1]),
      Piece("footer", law.row, FooterLen)>>

remaining_space_no_reserve(max_length, combined_text) ==
    max_length - StrLen(combined_text)

\* max_length - len(combined_text) - len(law_section.split('\n\n')[0]) - 100;
\* law_section starts with "\n\n", so the split's first element is empty
remaining_space(max_length, combined_text) ==
    max_length - StrLen(combined_text) - 0 - Reserve

loop_continues(laws, i) == i + 1

\* "break": no further law is looked at
loop_break(laws, i) == Len(laws) + 1

\* the loop of get_combined_law_text from law number i on
RECURSIVE CombineLoop(_, _, _, _)
CombineLoop(laws, i, combined_text, max_length) ==
    IF i > Len(laws) THEN combined_text
    ELSE LET law == laws[i]
             law_section == law_section_of(law)
         IN  IF StrLen(combined_text) + StrLen(law_section) > max_length
             THEN LET space == remaining_space(max_length, combined_text)
                      truncated ==
                          <<Piece("header", law.row, HeaderLen(law)),
                            Piece("text", law.row,
                                  Min(space, law.full_text[1])),
                            Piece("marker", law.row, MarkerLen)>>
                  IN  CombineLoop(laws, loop_break(laws, i),
                                  IF space > MinSpace
                                  THEN combined_text \o truncated
                                  ELSE combined_text,
                                  max_length)
             ELSE CombineLoop(laws, i + 1, combined_text \o law_section,
                              max_length)

get_combined_law_text(d, law_names, max_length) ==
    LET laws == find_multiple_laws(d, law_names)
    IN  IF laws.raised THEN Raised
        ELSE Returned(CombineLoop(laws.value, 1, <<>>, max_length))

\* names and limits of the calls with a list of names
ListNames == {<<>>, <<" ">>, <<"b">>, <<"A">>}

NameLists == UNION {[1..n -> ListNames] : n \in 0..MaxNames}

MaxLengths == {50, 300, 350, 500, 700, 15000}

NoArgs == [law_name |-> <<>>, law_names |-> <<>>, max_length |-> 0]

MatcherReturns(op, args, out) ==
    /\ matcher_pc = "ready"
    /\ matcher_pc' = IF out.raised THEN "raised" ELSE "returned"
    /\ matcher_op' = op
    /\ matcher_args' = args
    /\ matcher_out' = out
    /\ UNCHANGED df
    /\ UNCHANGED <<ragVars, fsVars, searchVars, chunkVars, batchVars, dbVars,
                   embedVars, mainVars, threadVars, s3>>

find_law_by_name_call ==
    \E law_name \in Names :
        MatcherReturns("find_law_by_name",
                       [NoArgs EXCEPT !.law_name = law_name],
                       find_law_by_name(df, law_name))

find_multiple_laws_call ==
    \E law_names \in NameLists :
        MatcherReturns("find_multiple_laws",
                       [NoArgs EXCEPT !.law_names = law_names],
                       find_multiple_laws(df, law_names))

get_laws_summary_call ==
    \E law_names \in NameLists :
        MatcherReturns("get_laws_summary",
                       [NoArgs EXCEPT !.law_names = law_names],
                       get_laws_summary(df, law_names))

get_combined_law_text_call ==
    \E law_names \in NameLists, max_length \in MaxLengths :
        MatcherReturns("get_combined_law_text",
                       [NoArgs EXCEPT !.law_names = law_names,
                                      !.max_length = max_length],
                       get_combined_law_text(df, law_names, max_length))

NoMatcher ==
    /\ df = <<>>
    /\ matcher_pc = "idle"
    /\ matcher_op = "none"
    /\ matcher_args = NoArgs
    /\ matcher_out = Returned(None)

\* ------------------------------------------------------------------------
\* LegalAISystem.process_legal_question
\* ------------------------------------------------------------------------
\* Config.RAG_TOP_K
RAG_TOP_K == 5

\* What agent1.optimize_query returns: a query, or the empty string (the
\* model's answer stripped to nothing, or an empty question returned as the
\* fallback). It catches every exception itself.
OptimizedQueries == {"", "optimized query"}

\* What get_combined_law_text returns for the names of the results
CombinedLawTexts == {"", "law texts"}

NoResponse == [status |-> "none"]

_create_error_response(error_message) ==
    [status |-> "error", error_message |-> error_message]

_create_demo_response == [status |-> "success", legal_analysis |-> "demo"]

success_response(optimized_query, rag_results) ==
    [status |-> "success", legal_analysis |-> "analysis",
     optimized_query |-> optimized_query,
     step2_rag_results |-> Len(rag_results)]

no_rag_results_never(rag_results) == FALSE

\* "if not rag_results"
no_rag_results(rag_results) == rag_results = <<>>

\* The body of process_legal_question, given what the components answer:
\* the components it invoked and the response it returns.
process_legal_question_body(limited, optimized_query, o, combined_law_text) ==
    IF limited
    THEN [calls |-> <<>>, response |-> _create_demo_response]
    ELSE IF optimized_query = ""
    THEN [calls |-> <<"agent1">>,
          response |-> _create_error_response("Query optimization failed")]
    ELSE IF o.escaped
    THEN [calls |-> <<"agent1", "rag_system">>,
          response |-> _create_error_response("exception")]
    ELSE IF no_rag_results(o.ret)
    THEN [calls |-> <<"agent1", "rag_system">>,
          response |-> _create_error_response("No relevant laws found")]
    ELSE IF combined_law_text = ""
    THEN [calls |-> <<"agent1", "rag_system", "law_matcher">>,
          response |-> _create_error_response("Could not retrieve law texts")]
    ELSE [calls |-> <<"agent1", "rag_system", "law_matcher", "agent3">>,
          response |-> success_response(optimized_query, o.ret)]

\* One call of process_legal_question; the search it makes is search_laws on
\* the system's RAGSystem with top_k = Config.RAG_TOP_K.
process_legal_question ==
    /\ main_pc = "ready"
    /\ rag_pc = "ready"
    /\ \E optimized_query \in OptimizedQueries,
          provider_response \in ProviderResponses,
          combined_law_text \in CombinedLawTexts :
         \E o \in search_laws(chunks, embeddings, SKLEARN_AVAILABLE,
                              provider_response, RAG_TOP_K) :
            LET r == process_legal_question_body(limited_mode, optimized_query,
                                                 o, combined_law_text)
                searching == "rag_system" \in {r.calls[i] : i \in DOMAIN r.calls}
            IN  /\ main_calls' = r.calls
                /\ main_response' = r.response
                /\ main_pc' = "done"
                /\ searched' = searching
                /\ provider' = IF searching THEN provider_response ELSE None
                /\ query_embedding' = IF searching THEN o.query_embedding ELSE None
                /\ top_k' = IF searching THEN RAG_TOP_K ELSE 0
                /\ results' = IF searching THEN o.ret ELSE <<>>
                /\ escaped' = (searching /\ o.escaped)
    /\ UNCHANGED <<ragVars, fsVars, chunkVars, batchVars, dbVars, embedVars,
                   matcherVars, limited_mode, threadVars, s3>>

\* The next question arrives.
next_question ==
    /\ main_pc = "done"
    /\ main_pc' = "ready"
    /\ main_calls' = <<>>
    /\ main_response' = NoResponse
    /\ searched' = FALSE
    /\ provider' = None
    /\ query_embedding' = None
    /\ top_k' = 0
    /\ results' = <<>>
    /\ escaped' = FALSE
    /\ UNCHANGED <<ragVars, fsVars, chunkVars, batchVars, dbVars, embedVars,
                   matcherVars, limited_mode, threadVars, s3>>

NoMain ==
    /\ limited_mode = FALSE
    /\ main_pc = "idle"
    /\ main_calls = <<>>
    /\ main_response = NoResponse

\* ------------------------------------------------------------------------
\* Concurrent search_laws calls on one RAGSystem
\* ------------------------------------------------------------------------
Threads == {1, 2}

\* every call keeps its intermediate values in its own frame
Frame_shared(t) == 1

\* query_embedding, similarities, top_indices and results are locals of the
\* call
Frame(t) == t

ThreadReturns(t, ret) ==
    /\ th_results' = [th_results EXCEPT ![Frame(t)] = ret]
    /\ th_pc' = [th_pc EXCEPT ![t] = "done"]

\* "if self.embeddings is None or not self.chunks: return []"
th_guard(t) ==
    /\ th_pc[t] = "call"
    /\ IF embeddings = None \/ Falsy(chunks)
       THEN ThreadReturns(t, <<>>)
       ELSE /\ th_pc' = [th_pc EXCEPT ![t] = "embed"]
            /\ UNCHANGED th_results
    /\ UNCHANGED <<th_top_k, th_response, th_query_embedding, th_similarities,
                   th_top_indices>>
    /\ UNCHANGED <<ragVars, fsVars, searchVars, chunkVars, batchVars, dbVars,
                   embedVars, matcherVars, mainVars, s3>>

\* "query_embedding = self.get_query_embedding(query)", [] on None
th_get_query_embedding(t) ==
    /\ th_pc[t] = "embed"
    /\ \E response \in ProviderResponses :
         /\ th_response' = [th_response EXCEPT ![t] = response]
         /\ th_query_embedding' =
               [th_query_embedding EXCEPT ![Frame(t)] = get_query_embedding(response)]
         /\ IF get_query_embedding(response) = None
            THEN ThreadReturns(t, <<>>)
            ELSE /\ th_pc' = [th_pc EXCEPT ![t] = "score"]
                 /\ UNCHANGED th_results
    /\ UNCHANGED <<th_top_k, th_similarities, th_top_indices>>
    /\ UNCHANGED <<ragVars, fsVars, searchVars, chunkVars, batchVars, dbVars,
                   embedVars, matcherVars, mainVars, s3>>

\* the similarities against self.embeddings and the top_k indices
th_score(t) ==
    /\ th_pc[t] = "score"
    /\ IF Len(embeddings) = 0
       THEN /\ ThreadReturns(t, <<>>)
            /\ UNCHANGED <<th_similarities, th_top_indices>>
       ELSE LET sim == cosine_similarity(th_query_embedding[Frame(t)], embeddings,
                                         SKLEARN_AVAILABLE)
            IN  \E order \in argsort_reversed(sim) :
                   /\ th_similarities' = [th_similarities EXCEPT ![Frame(t)] = sim]
                   /\ th_top_indices' =
                         [th_top_indices EXCEPT
                             ![Frame(t)] = top_indices_of(order, th_top_k[t])]
                   /\ th_pc' = [th_pc EXCEPT ![t] = "walk"]
                   /\ UNCHANGED th_results
    /\ UNCHANGED <<th_top_k, th_response, th_query_embedding>>
    /\ UNCHANGED <<ragVars, fsVars, searchVars, chunkVars, batchVars, dbVars,
                   embedVars, matcherVars, mainVars, s3>>

\* the loop over top_indices, reading self.chunks, and the return
th_walk(t) ==
    /\ th_pc[t] = "walk"
    /\ LET acc == DedupWalk(th_top_indices[Frame(t)], 1, chunks,
                            th_similarities[Frame(t)], th_top_k[t],
                            [results |-> <<>>, seen_laws |-> {}, raised |-> FALSE])
       IN  ThreadReturns(t, IF acc.raised THEN <<>> ELSE acc.results)
    /\ UNCHANGED <<th_top_k, th_response, th_query_embedding, th_similarities,
                   th_top_indices>>
    /\ UNCHANGED <<ragVars, fsVars, searchVars, chunkVars, batchVars, dbVars,
                   embedVars, matcherVars, mainVars, s3>>

NoThreads ==
    /\ th_pc = [t \in Threads |-> "idle"]
    /\ th_top_k = [t \in Threads |-> 0]
    /\ th_response = [t \in Threads |-> None]
    /\ th_query_embedding = [t \in Threads |-> None]
    /\ th_similarities = [t \in Threads |-> <<>>]
    /\ th_top_indices = [t \in Threads |-> <<>>]
    /\ th_results = [t \in Threads |-> <<>>]

\* ------------------------------------------------------------------------
\* Specifications
\* ------------------------------------------------------------------------
InitSearchVars ==
    /\ searched = FALSE
    /\ provider = None
    /\ query_embedding = None
    /\ top_k = 0
    /\ results = <<>>
    /\ escaped = FALSE

InitFiles ==
    /\ now = 1
    /\ fs = [p \in Paths |-> Absent]
    /\ job = IdleJob
    /\ runs = 0

\* The batch job writes snapshots while a RAGSystem is constructed and used.
Init ==
    /\ IS_PRODUCTION \in BOOLEAN
    /\ SKLEARN_AVAILABLE = TRUE
    /\ InitFiles
    /\ s3 = NoObjects
    /\ rag_pc = "new"
    /\ chunks = None
    /\ embeddings = None
    /\ loaded_from = "none"
    /\ latest_embedding_file = NoFile
    /\ latest_chunk_file = NoFile
    /\ InitSearchVars
    /\ NoChunking
    /\ NoBatch
    /\ InitDb
    /\ NoEmbedCall
    /\ NoMatcher
    /\ NoMain
    /\ NoThreads

Next ==
    \/ Tick
    \/ save_open_chunks
    \/ save_dump_chunks
    \/ save_open_embeddings
    \/ save_write_embeddings
    \/ RAGSystem_init
    \/ search_laws_call

Spec == Init /\ [][Next]_vars

\* A RAGSystem is constructed while the batch job writes snapshots, with or
\* without the snapshot objects in the bucket.
InitLoad ==
    /\ IS_PRODUCTION \in BOOLEAN
    /\ SKLEARN_AVAILABLE = TRUE
    /\ now = 1
    /\ fs = [p \in Paths |-> Absent]
    /\ job = IdleJob
    /\ runs = 0
    /\ s3 \in CloudObjects
    /\ rag_pc = "new"
    /\ chunks = None
    /\ embeddings = None
    /\ loaded_from = "none"
    /\ latest_embedding_file = NoFile
    /\ latest_chunk_file = NoFile
    /\ InitSearchVars
    /\ NoChunking
    /\ NoBatch
    /\ InitDb
    /\ NoEmbedCall
    /\ NoMatcher
    /\ NoMain
    /\ NoThreads

NextLoad ==
    \/ Tick
    \/ save_open_chunks
    \/ save_dump_chunks
    \/ save_open_embeddings
    \/ save_write_embeddings
    \/ RAGSystem_init

SpecLoad == InitLoad /\ [][NextLoad]_vars

\* search_laws on an instance that has loaded a snapshot (or none).
InitSearch ==
    /\ IS_PRODUCTION = FALSE
    /\ SKLEARN_AVAILABLE \in BOOLEAN
    /\ InitFiles
    /\ s3 = NoObjects
    /\ rag_pc = "ready"
    /\ \/ \E s \in SnapshotRows :
             /\ chunks = ChunksOf(s)
             /\ embeddings = EmbeddingsOf(s)
             /\ loaded_from = "local"
       \/ /\ chunks = <<>>
          /\ embeddings = None
          /\ loaded_from = "none"
    /\ latest_embedding_file = NoFile
    /\ latest_chunk_file = NoFile
    /\ InitSearchVars
    /\ NoChunking
    /\ NoBatch
    /\ InitDb
    /\ NoEmbedCall
    /\ NoMatcher
    /\ NoMain
    /\ NoThreads

NextSearch == search_laws_call

SpecSearch == InitSearch /\ [][NextSearch]_vars

\* chunk_text applied to a dataset cell.
InitChunk ==
    /\ IS_PRODUCTION = FALSE
    /\ SKLEARN_AVAILABLE = TRUE
    /\ InitFiles
    /\ s3 = NoObjects
    /\ rag_pc = "new"
    /\ chunks = None
    /\ embeddings = None
    /\ loaded_from = "none"
    /\ latest_embedding_file = NoFile
    /\ latest_chunk_file = NoFile
    /\ InitSearchVars
    /\ full_text \in Texts \cup {MissingText}
    /\ chunk_pc = "call"
    /\ doc_chunks = <<>>
    /\ NoBatch
    /\ InitDb
    /\ NoEmbedCall
    /\ NoMatcher
    /\ NoMain
    /\ NoThreads

NextChunk == chunk_text_call

SpecChunk == InitChunk /\ [][NextChunk]_vars

\* Calls of get_embedding against every behaviour of the provider.
EmbedTexts == {<<"w">>, <<"w", "w">>, <<"M", "w">>}

InitEmbed ==
    /\ IS_PRODUCTION = FALSE
    /\ SKLEARN_AVAILABLE = TRUE
    /\ InitFiles
    /\ s3 = NoObjects
    /\ rag_pc = "new"
    /\ chunks = None
    /\ embeddings = None
    /\ loaded_from = "none"
    /\ latest_embedding_file = NoFile
    /\ latest_chunk_file = NoFile
    /\ InitSearchVars
    /\ NoChunking
    /\ NoBatch
    /\ InitDb
    /\ embed_pc = "call"
    /\ embed_text \in EmbedTexts
    /\ embed_responses \in [1..retries -> Responses]
    /\ embed_result = NoEmbedResult
    /\ NoMatcher
    /\ NoMain
    /\ NoThreads

NextEmbed == get_embedding_call

SpecEmbed == InitEmbed /\ [][NextEmbed]_vars

\* Calls on a LawMatcher that has loaded its dataset.
InitMatcher ==
    /\ IS_PRODUCTION = FALSE
    /\ SKLEARN_AVAILABLE = TRUE
    /\ InitFiles
    /\ s3 = NoObjects
    /\ rag_pc = "new"
    /\ chunks = None
    /\ embeddings = None
    /\ loaded_from = "none"
    /\ latest_embedding_file = NoFile
    /\ latest_chunk_file = NoFile
    /\ InitSearchVars
    /\ NoChunking
    /\ NoBatch
    /\ InitDb
    /\ NoEmbedCall
    /\ df \in Dfs
    /\ matcher_pc = "ready"
    /\ matcher_op = "none"
    /\ matcher_args = NoArgs
    /\ matcher_out = Returned(None)
    /\ NoMain
    /\ NoThreads

NextMatcher ==
    \/ find_law_by_name_call
    \/ find_multiple_laws_call
    \/ get_laws_summary_call
    \/ get_combined_law_text_call

SpecMatcher == InitMatcher /\ [][NextMatcher]_vars

\* One run of process_dataset over a dataset, up to its final save.
InitBatch ==
    /\ IS_PRODUCTION = FALSE
    /\ SKLEARN_AVAILABLE = TRUE
    /\ InitFiles
    /\ s3 = NoObjects
    /\ rag_pc = "new"
    /\ chunks = None
    /\ embeddings = None
    /\ loaded_from = "none"
    /\ latest_embedding_file = NoFile
    /\ latest_chunk_file = NoFile
    /\ InitSearchVars
    /\ NoChunking
    /\ dataset \in Datasets
    /\ batch_pc = "law"
    /\ law_idx = 1
    /\ pending = <<>>
    /\ all_chunks = <<>>
    /\ all_embeddings = <<>>
    /\ intermediate = NoIntermediate
    /\ batch_log = <<>>
    /\ InitDb
    /\ NoEmbedCall
    /\ NoMatcher
    /\ NoMain
    /\ NoThreads

NextBatch ==
    \/ process_law
    \/ embed_chunk
    \/ end_law
    \/ final_save
    \/ save_dump_chunks
    \/ save_open_embeddings
    \/ save_write_embeddings
    \/ process_dataset_return

SpecBatch == InitBatch /\ [][NextBatch]_vars

\* process_dataset is one sequential program: it always takes its next step.
SpecBatchFair == SpecBatch /\ WF_vars(NextBatch)

\* The two stores: the snapshot files of a process_dataset run and, filled
\* once that run has ended, the chunks table.
NextStores ==
    \/ NextBatch
    \/ (batch_pc = "done" /\ load_data)

SpecStores == InitBatch /\ [][NextStores]_vars

\* Questions put to a LegalAISystem whose RAGSystem has loaded a snapshot
\* (or none); limited_mode is what __init__ left.
InitMain ==
    /\ IS_PRODUCTION = FALSE
    /\ SKLEARN_AVAILABLE = TRUE
    /\ InitFiles
    /\ s3 = NoObjects
    /\ rag_pc = "ready"
    /\ \/ \E s \in SnapshotRows :
             /\ chunks = ChunksOf(s)
             /\ embeddings = EmbeddingsOf(s)
             /\ loaded_from = "local"
       \/ /\ chunks = <<>>
          /\ embeddings = None
          /\ loaded_from = "none"
    /\ latest_embedding_file = NoFile
    /\ latest_chunk_file = NoFile
    /\ InitSearchVars
    /\ NoChunking
    /\ NoBatch
    /\ InitDb
    /\ NoEmbedCall
    /\ NoMatcher
    /\ limited_mode \in BOOLEAN
    /\ main_pc = "ready"
    /\ main_calls = <<>>
    /\ main_response = NoResponse
    /\ NoThreads

NextMain ==
    \/ process_legal_question
    \/ next_question

SpecMain == InitMain /\ [][NextMain]_vars

\* Calls on a LegalRAGDatabase whose tables start empty.
InitDatabase == Init /\ IS_PRODUCTION = FALSE

NextDb ==
    \/ load_embedding_model
    \/ load_data
    \/ generate_embeddings

SpecDb == InitDatabase /\ [][NextDb]_vars

\* The database is built, then queried; search leaves the chunks table as
\* it is.
NextDbSearch ==
    \/ (search_logs = 0 /\ db_call.op # "search" /\ NextDb)
    \/ search

SpecDbSearch == InitDatabase /\ [][NextDbSearch]_vars

\* Two search_laws calls running at once on an instance that has loaded a
\* snapshot (or none).
MaxThreadChunks == 2

InitThreads ==
    /\ IS_PRODUCTION = FALSE
    /\ SKLEARN_AVAILABLE = TRUE
    /\ InitFiles
    /\ s3 = NoObjects
    /\ rag_pc = "ready"
    /\ \/ \E s \in {r \in SnapshotRows : Len(r) <= MaxThreadChunks} :
             /\ chunks = ChunksOf(s)
             /\ embeddings = EmbeddingsOf(s)
             /\ loaded_from = "local"
       \/ /\ chunks = <<>>
          /\ embeddings = None
          /\ loaded_from = "none"
    /\ latest_embedding_file = NoFile
    /\ latest_chunk_file = NoFile
    /\ InitSearchVars
    /\ NoChunking
    /\ NoBatch
    /\ InitDb
    /\ NoEmbedCall
    /\ NoMatcher
    /\ NoMain
    /\ th_pc = [t \in Threads |-> "call"]
    /\ th_top_k \in [Threads -> {1, RAG_TOP_K}]
    /\ th_response = [t \in Threads |-> None]
    /\ th_query_embedding = [t \in Threads |-> None]
    /\ th_similarities = [t \in Threads |-> <<>>]
    /\ th_top_indices = [t \in Threads |-> <<>>]
    /\ th_results = [t \in Threads |-> <<>>]

NextThreads ==
    \E t \in Threads :
        \/ th_guard(t)
        \/ th_get_query_embedding(t)
        \/ th_score(t)
        \/ th_walk(t)

SpecThreads == InitThreads /\ [][NextThreads]_vars

\* ------------------------------------------------------------------------
\* Properties of search_laws
\* ------------------------------------------------------------------------
DistinctLaws(cs) == {cs[i].law_name : i \in DOMAIN cs}

\* C1: with a loaded snapshot and the query embedding available, search_laws
\* returns exactly min(top_k, D) results, D being the number of distinct
\* law_name values among the snapshot's chunks.
C1_ReturnsMinTopKDistinct ==
    (searched /\ loaded_from = "local" /\ provider # ProviderError)
        => Len(results) = Min(top_k, Cardinality(DistinctLaws(chunks)))

\* C2: no two results returned by search_laws share the same law_name.
C2_NoTwoResultsShareLaw ==
    \A i, j \in DOMAIN results :
        i # j => results[i].law_name # results[j].law_name

\* a search over three chunks of two laws that emitted both laws, so that a
\* chunk of an already emitted law was walked over
C2_Witness ==
    /\ searched
    /\ top_k = 3
    /\ Len(chunks) = 3
    /\ Len(results) = 2

\* C3: if the embedding provider fails for the query, search_laws returns
\* the empty list and no exception escapes, whatever snapshot is loaded and
\* whatever top_k is.
C3_ProviderFailureGivesEmpty ==
    (searched /\ provider = ProviderError)
        => (results = <<>> /\ ~escaped)

\* the provider failed on an instance that holds a snapshot of several chunks
C3_Witness ==
    /\ searched
    /\ provider = ProviderError
    /\ embeddings # None
    /\ Len(chunks) >= 2
    /\ top_k >= 2

\* ------------------------------------------------------------------------
\* Properties of the loader
\* ------------------------------------------------------------------------
\* C4: when no snapshot could be loaded (nothing found, or loading raised),
\* construction completes in demo mode and every later search_laws call
\* returns the empty list without raising.
C4_NoSnapshotDegradesToEmpty ==
    (rag_pc = "ready" /\ loaded_from = "none")
        => /\ chunks = <<>>
           /\ embeddings = None
           /\ results = <<>>
           /\ ~escaped

\* files were found but reading them raised, and a search with a working
\* provider was then made on the instance
C4_Witness ==
    /\ rag_pc = "ready"
    /\ loaded_from = "none"
    /\ latest_chunk_file # NoFile
    /\ searched
    /\ provider # ProviderError

\* C5: whenever search_laws can proceed to scoring, the number of loaded
\* chunk records equals the number of rows of the loaded embedding matrix.
C5_ChunksAlignedWithEmbeddings ==
    (rag_pc = "ready" /\ embeddings # None /\ ~Falsy(chunks))
        => Len(chunks) = Len(embeddings)

\* Snapshots present: (directory, timestamp) pairs of which both files are
\* completely written.
SnapshotsPresent(f) ==
    {<<d, t>> \in Dirs \X (1..MaxTs) :
        /\ f[[kind |-> "emb", dir |-> d, ts |-> t]].st = "ok"
        /\ f[[kind |-> "chunks", dir |-> d, ts |-> t]].st = "ok"}

GreatestTimestamp(f) ==
    CHOOSE t \in 1..MaxTs :
        /\ \E d \in Dirs : <<d, t>> \in SnapshotsPresent(f)
        /\ \A x \in SnapshotsPresent(f) : x[2] <= t

\* C6: when several snapshots are present, the loader loads the embedding
\* file and the chunk file that both carry the greatest timestamp token
\* among the snapshots present.
C6_LoadsGreatestTimestamp ==
    [][(rag_pc = "new" /\ rag_pc' = "ready"
            /\ Cardinality(SnapshotsPresent(fs)) >= 2)
        => /\ loaded_from' = "local"
           /\ latest_embedding_file'.ts = GreatestTimestamp(fs)
           /\ latest_chunk_file'.ts = GreatestTimestamp(fs)]_vars

\* ------------------------------------------------------------------------
\* Properties of chunk_text
\* ------------------------------------------------------------------------
\* chunk_text splits by articles when the pattern matches at least once
ArticleMode(cell) == \E i \in 1..Len(str(cell)) : str(cell)[i] = "M"

\* the number of non-blank units (preamble, articles or sentences) that a
\* chunk's text is made of
NonBlankUnits(text, article) ==
    IF article
    THEN LET pieces == article_splits(text)
         IN  (IF strip(pieces[1]) # <<>> THEN 1 ELSE 0) + Len(pieces) - 1
    ELSE LET pieces == split_sentences(text)
         IN  Cardinality({i \in 1..Len(pieces) : strip(pieces[i]) # <<>>})

\* the articles or sentences of a document, as chunk_text forms them
UnitsOf(cell) ==
    IF ArticleMode(cell)
    THEN LET splits == article_splits(str(cell))
         IN  [i \in 1..(Len(splits) - 1) |-> article_content_of(splits[i + 1])]
    ELSE split_sentences(str(cell))

C8_OversizedUnitEmittedWhole ==
    chunk_pc = "done" =>
        \A u \in 1..Len(UnitsOf(full_text)) :
            count_tokens(UnitsOf(full_text)[u]) > max_chunk_tokens
                => \E i \in 1..Len(doc_chunks) :
                       doc_chunks[i].text = strip(UnitsOf(full_text)[u])

\* a document with an oversized unit that is not its first unit
C8_Witness ==
    /\ chunk_pc = "done"
    /\ Len(doc_chunks) >= 2
    /\ \E u \in 2..Len(UnitsOf(full_text)) :
           count_tokens(UnitsOf(full_text)[u]) > max_chunk_tokens

\* C9: chunk_text yields zero chunks for a document whose text field is
\* empty or missing.
C9_EmptyOrMissingTextGivesNoChunks ==
    (chunk_pc = "done" /\ (full_text = <<>> \/ full_text = MissingText))
        => doc_chunks = <<>>

\* ------------------------------------------------------------------------
\* Properties of the stores
\* ------------------------------------------------------------------------
UniqueChunkIds(cs) ==
    \A i, j \in 1..Len(cs) : i # j => cs[i].chunk_id # cs[j].chunk_id

\* C10: in every store produced by the code (the snapshot file written by
\* process_dataset and the chunks table filled by load_data) no two chunk
\* records share a chunk_id.
C10_ChunkIdsUniqueInStores ==
    /\ \A p \in Paths :
           (p.kind = "chunks" /\ fs[p].st = "ok") => UniqueChunkIds(fs[p].data)
    /\ UniqueChunkIds(db_chunks)

\* ------------------------------------------------------------------------
\* Properties of process_dataset and get_embedding
\* ------------------------------------------------------------------------
ErrorAt(p) == batch_log[p].ev = "error"

EmbeddedOf(i) ==
    {p \in DOMAIN batch_log : batch_log[p].ev = "embedded" /\ batch_log[p].law = i}

LoopEnded == batch_pc \in {"save", "saving", "done"}

\* after a failure for a chunk of row d no later chunk of d is embedded
NoLaterChunkEmbedded ==
    \A p, q \in DOMAIN batch_log :
        (ErrorAt(p) /\ p < q) =>
            ~(batch_log[q].ev = "embedded" /\ batch_log[q].law = batch_log[p].law)

\* once the loop has ended every row was taken up, and every row without a
\* failure has all its chunks embedded
EveryLawProcessed ==
    LoopEnded =>
        \A i \in DOMAIN dataset :
            /\ \E p \in DOMAIN batch_log :
                   batch_log[p].ev = "law" /\ batch_log[p].law = i
            /\ (\A p \in DOMAIN batch_log : ~(ErrorAt(p) /\ batch_log[p].law = i))
                   => Cardinality(EmbeddedOf(i))
                        = Len(chunk_text(dataset[i].full_text,
                                         [mevzuatNo |-> dataset[i].mevzuatNo,
                                          mevAdi |-> dataset[i].mevAdi]))

\* C11: when embedding generation fails for a chunk of document d, no later
\* chunk of d is embedded, every document after d is still processed, and the
\* job still reaches the final save.
C11_FailingLawNeverAbortsBatch ==
    /\ [](NoLaterChunkEmbedded /\ EveryLawProcessed)
    /\ <>(batch_pc = "done")

\* a finished run in which the first chunk of a two-chunk row failed and a
\* later row was embedded
C11_Witness ==
    /\ batch_pc = "done"
    /\ \E p, q \in DOMAIN batch_log :
          /\ ErrorAt(p) /\ batch_log[p].chunk = 0
          /\ dataset[batch_log[p].law].full_text = TwoChunkText
          /\ p < q
          /\ batch_log[q].ev = "embedded"
          /\ batch_log[q].law > batch_log[p].law

\* C12: get_embedding calls the provider at most retries times; it returns
\* only the vector of a successful call, at the first success, and raises
\* when every attempt fails; it never returns a substituted vector.
C12_ReturnsOnlyProviderVector ==
    (embed_pc # "idle" /\ embed_pc # "call") =>
        LET e == embed_result
            Succeeds == {a \in 1..retries : embed_responses[a] = "ok"}
        IN  /\ e.calls <= retries
            /\ (Succeeds = {}) => (e.raised /\ e.calls = retries)
            /\ (Succeeds # {}) =>
                   /\ ~e.raised
                   /\ e.calls = CHOOSE a \in Succeeds : \A b \in Succeeds : a <= b
                   /\ e.value = Embedding(embed_text)
            /\ e.raised => e.value = None

\* a call that succeeded at its second attempt, and a call that used up all
\* attempts
C12_Witness ==
    \/ (embed_pc = "returned" /\ embed_result.calls = 2)
    \/ (embed_pc = "raised" /\ embed_result.calls = retries)

\* ------------------------------------------------------------------------
\* Order of the results of search_laws
\* ------------------------------------------------------------------------
\* a >= b on floats: false as soon as one side is NaN
Geq(a, b) == a # NaN /\ b # NaN /\ a >= b

\* the similarities of the search whose outcome the state holds
SimilaritiesOfSearch == cosine_similarity(query_embedding, embeddings, SKLEARN_AVAILABLE)

SearchRanked == searched /\ provider # ProviderError /\ loaded_from = "local"

\* C13: the results of search_laws are in non-increasing order of
\* similarity, and the k-th result carries rank k.
C13_ResultsDescendingWithConsecutiveRanks ==
    searched =>
        \A k \in DOMAIN results :
            /\ results[k].rank = k
            /\ (k < Len(results)) =>
                   Geq(results[k].similarity, results[k + 1].similarity)

\* the chunk order the tie rule prescribes: descending similarity, then
\* ascending chunk_index, then ascending position in the snapshot
TieRuleBefore(i, j, sim, cs) ==
    \/ sim[i] > sim[j]
    \/ /\ sim[i] = sim[j]
       /\ \/ cs[i].chunk_index < cs[j].chunk_index
          \/ (cs[i].chunk_index = cs[j].chunk_index /\ i < j)

TieRuleOrder(sim, cs) ==
    CHOOSE p \in argsort_reversed(sim) :
        \A a, b \in DOMAIN p : a < b => TieRuleBefore(p[a], p[b], sim, cs)

\* C14: among chunks with equal similarity, search_laws considers them in
\* ascending chunk_index order and then in ascending position in the
\* snapshot, so the results are those of walking the chunks in that order.
C14_TiesByChunkIndexThenPosition ==
    SearchRanked =>
        LET sim == SimilaritiesOfSearch
        IN  results = DedupWalk(top_indices_of(TieRuleOrder(sim, chunks), top_k),
                                1, chunks, sim, top_k,
                                [results |-> <<>>, seen_laws |-> {},
                                 raised |-> FALSE]).results

\* C15: a stored chunk whose embedding is the zero vector gets similarity 0
\* with every query, with the library cosine function and with the fallback,
\* and no result carries an undefined similarity.
C15_ZeroVectorHasSimilarityZero ==
    SearchRanked =>
        /\ \A i \in DOMAIN embeddings :
               Dot(embeddings[i], embeddings[i]) = 0 => SimilaritiesOfSearch[i] = 0
        /\ \A k \in DOMAIN results : results[k].similarity # NaN
        /\ ~escaped

\* ------------------------------------------------------------------------
\* Properties of the LawMatcher
\* ------------------------------------------------------------------------
\* name occurs in the cell as a substring, letter case ignored
contains_substring(cell, name) ==
    /\ cell # MissingText
    /\ \E pos \in 0..(Len(cell) - Len(name)) :
           \A i \in 1..Len(name) : lower(name[i]) = lower(cell[pos + i])

Called(op) == matcher_op = op /\ matcher_pc # "ready"

\* C16: find_law_by_name returns the first row whose name contains the
\* requested name as a case-insensitive substring; only if there is none,
\* the first row whose name contains the first whitespace-delimited token of
\* the requested name; if neither exists it returns None.
C16_FirstSubstringMatchThenFirstToken ==
    Called("find_law_by_name") =>
        LET name == matcher_args.law_name
            exact == {i \in DOMAIN df : contains_substring(df[i].mevAdi, name)}
            tokens == split(name)
            partial == IF tokens = <<>> THEN {}
                       ELSE {i \in DOMAIN df :
                                 contains_substring(df[i].mevAdi, tokens[1])}
            v == matcher_out.value
        IN  /\ matcher_pc = "returned"
            /\ IF exact # {} THEN v # NoneLaw /\ v.row = iloc0(exact)
               ELSE IF partial # {} THEN v # NoneLaw /\ v.row = iloc0(partial)
               ELSE v = NoneLaw

Resolvable(name) == find_law_by_name(df, name).value # NoneLaw

\* C17: get_laws_summary and find_multiple_laws never raise; they return one
\* entry per resolvable name, in request order, unresolvable names omitted.
C17_ListCallsNeverRaise ==
    (Called("find_multiple_laws") \/ Called("get_laws_summary")) =>
        /\ matcher_pc = "returned"
        /\ LET names == matcher_args.law_names
               resolved == SelectSeq(names, Resolvable)
               out == matcher_out.value
           IN  /\ Len(out) = Len(resolved)
               /\ Len(out) <= Len(names)
               /\ \A i \in DOMAIN out :
                      out[i].row = find_law_by_name(df, resolved[i]).value.row

\* a summary call with a whitespace-only name and a resolvable name
C17_Witness ==
    /\ Called("get_laws_summary")
    /\ matcher_args.law_names = <<<<" ">>, <<"b">>>>
    /\ Len(matcher_out.value) = 1

MarkerPieces(out) == {i \in DOMAIN out : out[i].kind = "marker"}

\* C18: the length of the string returned by get_combined_law_text is at
\* most max_length plus the length of a single document header.
C18_LengthWithinMaxPlusHeader ==
    Called("get_combined_law_text") =>
        LET out == matcher_out.value
            headers == {out[i].len : i \in {j \in DOMAIN out :
                            out[j].kind = "header" /\ j + 2 \in MarkerPieces(out)}}
        IN  /\ matcher_pc = "returned"
            /\ \/ StrLen(out) <= matcher_args.max_length
               \/ \E h \in headers : StrLen(out) <= matcher_args.max_length + h

\* a truncated output that is longer than max_length
C18_Witness ==
    /\ Called("get_combined_law_text")
    /\ MarkerPieces(matcher_out.value) # {}
    /\ StrLen(matcher_out.value) > matcher_args.max_length

\* the laws the call resolved, and how many of them fit completely
ResolvedLaws == find_multiple_laws(df, matcher_args.law_names).value

RECURSIVE SectionsOf(_, _)
SectionsOf(laws, n) ==
    IF n = 0 THEN <<>> ELSE SectionsOf(laws, n - 1) \o law_section_of(laws[n])

FitCount ==
    CHOOSE n \in 0..Len(ResolvedLaws) :
        /\ StrLen(SectionsOf(ResolvedLaws, n)) <= matcher_args.max_length
        /\ (n < Len(ResolvedLaws)) =>
               StrLen(SectionsOf(ResolvedLaws, n + 1)) > matcher_args.max_length

\* C19: whenever adding a resolved document's section would exceed
\* max_length, the output still holds that document's header with a prefix
\* of its text and ends with the truncation marker, also when max_length is
\* smaller than the header alone.
C19_OverflowingLawIsTruncatedWithMarker ==
    (Called("get_combined_law_text") /\ FitCount < Len(ResolvedLaws)) =>
        LET out == matcher_out.value
            law == ResolvedLaws[FitCount + 1]
        IN  /\ Len(out) >= 3
            /\ out[Len(out)].kind = "marker"
            /\ out[Len(out) - 2] = Piece("header", law.row, HeaderLen(law))
            /\ out[Len(out) - 1].kind = "text"
            /\ out[Len(out) - 1].row = law.row
            /\ out[Len(out) - 1].len <= law.full_text[1]

\* C20: the documents in the output form a prefix of the resolved documents:
\* every document before the first one that does not fit appears with its
\* complete text, and no document after that point appears.
C20_OutputIsPrefixOfResolvedLaws ==
    Called("get_combined_law_text") =>
        LET out == matcher_out.value
            n == FitCount
        IN  /\ Len(out) \in {3 * n, 3 * n + 3}
            /\ SubSeq(out, 1, 3 * n) = SectionsOf(ResolvedLaws, n)
            /\ (Len(out) = 3 * n + 3) =>
                   /\ n < Len(ResolvedLaws)
                   /\ \A i \in (3 * n + 1)..(3 * n + 3) :
                          out[i].row = ResolvedLaws[n + 1].row
                   /\ out[3 * n + 3].kind = "marker"

\* two resolved documents of which the first fits and the second is left out
C20_Witness ==
    /\ Called("get_combined_law_text")
    /\ Len(ResolvedLaws) = 2
    /\ FitCount = 1
    /\ Len(matcher_out.value) = 3

\* ------------------------------------------------------------------------
\* Properties of process_legal_question
\* ------------------------------------------------------------------------
Invoked(component) == component \in {main_calls[i] : i \in DOMAIN main_calls}

\* C21: whenever the search of a question returns the empty list, the call
\* returns the error response "No relevant laws found" and has invoked
\* neither the law matcher nor the legal analyst.
C21_NoResultsGivesErrorWithoutMatcherOrAnalyst ==
    (main_pc = "done" /\ Invoked("rag_system") /\ ~escaped /\ results = <<>>)
        => /\ main_response = _create_error_response("No relevant laws found")
           /\ ~Invoked("law_matcher")
           /\ ~Invoked("agent3")

\* C21 witness: a loaded snapshot is searched, the provider fails, and the
\* question is answered with the error response
C21_Witness ==
    /\ main_pc = "done"
    /\ Invoked("rag_system")
    /\ chunks # <<>>
    /\ provider = ProviderError
    /\ results = <<>>
    /\ main_response.status = "error"

\* ------------------------------------------------------------------------
\* Properties of LegalRAGDatabase
\* ------------------------------------------------------------------------
Searched == db_call.op = "search" /\ ~db_call.raised

\* the rows a search may return: embedded and equal to every supplied filter
Matching ==
    {i \in DOMAIN db_chunks :
        /\ db_chunks[i].embedding # None
        /\ (db_call.law_type_filter # ""
               => db_chunks[i].law_type = db_call.law_type_filter)
        /\ (db_call.chunk_type_filter # ""
               => db_chunks[i].chunk_type = db_call.chunk_type_filter)}

ScoreOfRow(i) ==
    similarity_of(get_embeddings(db_call.query), db_chunks[i].embedding)

RowOfResult(r) == {i \in DOMAIN db_chunks : db_chunks[i].chunk_id = r.chunk_id}

\* C22: every result of search is an embedded row that equals the supplied
\* filters, and the results are the top_k highest-scoring matching rows, in
\* descending order of score.
C22_ResultsAreTopKOfEmbeddedMatchingRows ==
    Searched =>
        LET res == db_call.results
            returned == UNION {RowOfResult(res[n]) : n \in DOMAIN res}
        IN  /\ \A n \in DOMAIN res :
                  /\ RowOfResult(res[n]) # {}
                  /\ RowOfResult(res[n]) \subseteq Matching
                  /\ \A i \in RowOfResult(res[n]) :
                        res[n].similarity_score = ScoreOfRow(i)
            /\ Len(res) = Min(db_call.top_k, Cardinality(Matching))
            /\ Cardinality(returned) = Len(res)
            /\ \A n \in 1..(Len(res) - 1) :
                  res[n].similarity_score >= res[n + 1].similarity_score
            /\ \A i \in Matching \ returned : \A n \in DOMAIN res :
                  ScoreOfRow(i) <= res[n].similarity_score

\* C22 witness: with a pending row and an embedded row in the table, a
\* filtered search returns the embedded row only
C22_Witness ==
    /\ Searched
    /\ db_call.chunk_type_filter # ""
    /\ \E i \in DOMAIN db_chunks : db_chunks[i].embedding = None
    /\ Len(db_call.results) = 1
    /\ Cardinality(Matching) = 1

\* C30: every row's stored embedding is absent or is the one computed from
\* the row's present text, and a generate_embeddings call that completed
\* leaves no pending row.
C30_EmbeddingAbsentOrOfCurrentText ==
    /\ \A i \in DOMAIN db_chunks :
          \/ db_chunks[i].embedding = None
          \/ db_chunks[i].embedding = get_embeddings(db_chunks[i].text)
    /\ (db_call.op = "generate_embeddings" /\ ~db_call.raised)
          => \A i \in DOMAIN db_chunks : db_chunks[i].embedding # None

\* C30 witness: a chunk_id that was embedded and then loaded again with another
\* text is pending, beside a row that still carries its embedding
C30_Witness ==
    /\ db_call.op = "load_data"
    /\ db_seq = 3
    /\ Len(db_chunks) = 2
    /\ db_chunks[1].embedding # None
    /\ db_chunks[2].embedding = None
    /\ db_chunks[2].id = 3

\* ------------------------------------------------------------------------
\* Properties of concurrent searches
\* ------------------------------------------------------------------------
\* what the call of thread t returns when it runs alone
AloneResults(t) ==
    {o.ret : o \in search_laws(chunks, embeddings, SKLEARN_AVAILABLE,
                               th_response[t], th_top_k[t])}

\* C23: no step of search_laws changes the loaded chunks or embeddings, and
\* every call that ran interleaved with another returns a result it can
\* return when run alone.
C23_ConcurrentSearchesReturnAsAlone ==
    /\ [][chunks' = chunks /\ embeddings' = embeddings]_vars
    /\ [](\A t \in Threads : th_pc[t] = "done" => th_results[t] \in AloneResults(t))

\* C23 witness: both calls have returned results, for queries the provider
\* answered with different vectors
C23_Witness ==
    /\ \A t \in Threads : th_pc[t] = "done" /\ th_results[t] # <<>>
    /\ th_response[1] # th_response[2]
    /\ th_results[1] # th_results[2]

\* ------------------------------------------------------------------------
\* Properties of the accumulated lists and of the backoff
\* ------------------------------------------------------------------------
Aligned(cs, es) ==
    /\ Len(cs) = Len(es)
    /\ \A i \in DOMAIN cs : es[i] = Embedding(cs[i].text)

\* C24: at every step of process_dataset the accumulated chunks and embeddings
\* have equal length and embedding i was generated from the text of chunk i;
\* the same holds of what the intermediate and the final save were given.
C24_ChunksAndEmbeddingsAligned ==
    /\ Aligned(all_chunks, all_embeddings)
    /\ Aligned(intermediate.chunks, intermediate.embeddings)
    /\ Aligned(job.chunks, job.embeddings)

\* C24 witness: the final save was given two chunks or more of a run in which
\* a law failed after one of its chunks had been embedded
C24_Witness ==
    /\ batch_pc = "saving"
    /\ Len(job.chunks) >= 2
    /\ \E p \in DOMAIN batch_log :
          /\ ErrorAt(p)
          /\ batch_log[p].chunk > 0

\* the waits of the call that followed a rate-limit signal, in order
RateLimitWaits ==
    LET w == embed_result.waits
        at == SelectSeq([i \in 1..Len(w) |-> i],
                        LAMBDA i : embed_responses[i] = "rate_limit")
    IN  [j \in 1..Len(at) |-> w[at[j]]]

\* C25: the wait after the j-th rate-limit signal of a call is the base
\* delay of 5 seconds doubled j - 1 times, whatever happened at the other
\* attempts.
C25_BackoffDoublesPerRateLimitSignal ==
    embed_pc \in {"returned", "raised"} =>
        \A j \in DOMAIN RateLimitWaits : RateLimitWaits[j] = 5 * Pow2(j - 1)

\* ------------------------------------------------------------------------
\* Properties of load_embeddings
\* ------------------------------------------------------------------------
\* C26: in production, with the snapshot objects in the bucket, the
\* constructed instance holds the chunks and embeddings of the cloud snapshot.
C26_ProductionLoadsFromCloudFirst ==
    (rag_pc = "ready" /\ IS_PRODUCTION /\ s3.st = "present")
        => /\ loaded_from = "cloud"
           /\ chunks = s3.chunks
           /\ embeddings = s3.embeddings

\* ------------------------------------------------------------------------
\* The loader beside a running save
\* ------------------------------------------------------------------------
\* load_embeddings returns in this step
LoadReturns == rag_pc = "new" /\ rag_pc' = "ready"

\* _save_final_results is between its first and its last file write, and an
\* older snapshot lies complete in the same directory
SavingBesideOlderSnapshot ==
    /\ job.pc # "idle"
    /\ \E x \in SnapshotsPresent(fs) : x[1] = job.dir /\ x[2] < job.ts

\* the chunk list and the embedding matrix of one snapshot tag
OfOneSnapshot(cs, es, le, lc) ==
    \/ (le.dir = lc.dir /\ le.ts = lc.ts)
    \/ \E x \in SnapshotsPresent(fs) :
         /\ es = fs[[kind |-> "emb", dir |-> x[1], ts |-> x[2]]].data
         /\ cs = fs[[kind |-> "chunks", dir |-> x[1], ts |-> x[2]]].data

\* C27: a loader that runs while _save_final_results is writing a newer
\* snapshot beside an older complete one never ends up holding the chunk
\* list of one snapshot together with the embedding matrix of another.
C27_LoaderNeverMixesSnapshots ==
    [][(LoadReturns /\ SavingBesideOlderSnapshot /\ embeddings' # None)
        => OfOneSnapshot(chunks', embeddings',
                         latest_embedding_file', latest_chunk_file')]_vars

\* C28: after load_embeddings returns the instance is either loaded, with
\* embeddings and chunks both read from cloud storage or both read from
\* local files, or in demo mode with chunks = [] and embeddings = None; a
\* load that fails part-way leaves no embeddings without their chunks.
C28_LoadedFromOneSourceOrDemo ==
    [][LoadReturns
        => \/ (chunks' = <<>> /\ embeddings' = None)
           \/ \E pe \in Glob(fs, "emb"), pc \in Glob(fs, "chunks") :
                /\ fs[pe].st = "ok" /\ fs[pc].st = "ok"
                /\ embeddings' = fs[pe].data
                /\ chunks' = fs[pc].data
           \/ /\ s3.st = "present"
              /\ embeddings' = s3.embeddings
              /\ chunks' = s3.chunks]_vars

\* a load found a complete embedding file and a half-written chunk file,
\* failed after reading the embeddings, and ended in demo mode
C28_Witness ==
    /\ rag_pc = "ready"
    /\ loaded_from = "none"
    /\ latest_embedding_file # NoFile
    /\ latest_chunk_file # NoFile
    /\ fs[latest_embedding_file].st = "ok"
    /\ fs[latest_chunk_file].st = "partial"
    /\ chunks = <<>>
    /\ embeddings = None

\* ------------------------------------------------------------------------
\* The units of a document in its chunks
\* ------------------------------------------------------------------------
\* the units of a document, blanks around each removed and blank units left
\* out: the preamble and each article with its header, or each sentence
DocumentUnits(cell) ==
    LET text == str(cell)
        splits == article_splits(text)
        units == IF Len(splits) > 1
                 THEN <<splits[1]>> \o
                      [i \in 1..(Len(splits) - 1) |-> article_content_of(splits[i + 1])]
                 ELSE split_sentences(text)
    IN  SelectSeq([i \in 1..Len(units) |-> strip(units[i])], LAMBDA u : u # <<>>)

OccursAt(text, u, p) ==
    /\ p + Len(u) - 1 <= Len(text)
    /\ SubSeq(text, p, p + Len(u) - 1) = u

\* how many of the leading units stand in the text one after the other
\* without overlapping
RECURSIVE EmbeddedPrefix(_, _)
EmbeddedPrefix(text, units) ==
    IF units = <<>> THEN 0
    ELSE LET u == Head(units)
             P == {p \in 1..Len(text) : OccursAt(text, u, p)}
         IN  IF P = {} THEN 0
             ELSE LET p == CHOOSE x \in P : \A y \in P : x <= y
                  IN  1 + EmbeddedPrefix(SubSeq(text, p + Len(u), Len(text)),
                                         Tail(units))

\* the units that remain after each chunk, in order, took the leading units
\* its text holds
RECURSIVE UnitsLeft(_, _)
UnitsLeft(cs, units) ==
    IF cs = <<>> THEN units
    ELSE UnitsLeft(Tail(cs),
                   SubSeq(units, EmbeddedPrefix(Head(cs).text, units) + 1,
                          Len(units)))

\* the words and article headers of a text
Content(t) == Cardinality({i \in 1..Len(t) : t[i] \in {"w", "M"}})

RECURSIVE ContentOfChunks(_)
ContentOfChunks(cs) ==
    IF cs = <<>> THEN 0 ELSE Content(Head(cs).text) + ContentOfChunks(Tail(cs))

\* C29: every non-blank unit of the document (the preamble, each article
\* with its MADDE header, or each sentence) appears in exactly one chunk of
\* chunk_text, and the chunks read in chunk_index order 0, 1, 2, ... give
\* the units in document order: none is dropped, duplicated or reordered.
C29_EveryUnitInExactlyOneChunkInOrder ==
    chunk_pc = "done"
        => /\ \A i \in 1..Len(doc_chunks) : doc_chunks[i].chunk_index = i - 1
           /\ UnitsLeft(doc_chunks, DocumentUnits(full_text)) = <<>>
           /\ ContentOfChunks(doc_chunks) = Content(str(full_text))

\* a document of three units or more that chunk_text laid out over two
\* chunks or more
C29_Witness ==
    /\ chunk_pc = "done"
    /\ Len(DocumentUnits(full_text)) >= 3
    /\ Len(doc_chunks) >= 2

====
